---- MODULE Spec2Model ----
(***************************************************************************)
(* Model of the document agent: the POST route (src/unnamed/part_000), the *)
(* agent session documentAgent (src/utils/agent.ts) with its step cap, the *)
(* filesystem tools that run against the process working directory, and    *)
(* the search_document scan loop.                                          *)
(*                                                                         *)
(* Strings that the code only copies are TLA+ strings; strings the code    *)
(* looks into (search content, queries) are sequences of one-character     *)
(* strings; paths are records [abs, parts] of their components.            *)
(***************************************************************************)
EXTENDS Integers, Sequences, FiniteSets, TLC

VARIABLES
    pc,          \* per request slot: "idle", "session" (awaiting the model), "done"
    request,     \* per slot: <<>> or <<body>>, the body of the request in flight
    invoked,     \* per slot: the prompts documentAgent was called with
    steps,       \* per slot: the number of steps of the generateText loop so far
    toolFailed,  \* per slot: some tool of this session returned an error result
    result,      \* per slot: <<>> or <<what documentAgent returned>>
    logged,      \* per slot: what POST wrote with console.error
    response,    \* per slot: <<>> or <<the Response POST returned>>
    escaped,     \* per slot: <<>> or <<the exception that left POST>>
    cwd,         \* the working directory of the process (process.cwd())
    lastExec,    \* the latest tool execution of the process
    lastChdir,   \* who made the latest successful process.chdir, and where to
    content,     \* search_document: the content argument
    query,       \* search_document: the query argument
    contextLength, \* search_document: the contextLength argument
    re,          \* search_document: the RegExp object [source, lastIndex]
    matches,     \* search_document: the matches array
    sd,          \* search_document: where the execution is
    sdResult,    \* search_document: <<>> or <<the value execute returned>>
    tcall,       \* a tool called on its own: [tool, input]
    tret,        \* <<>> or <<the value the execute of that tool returned>>
    disk,        \* the files that tool reads and writes: path -> content
    taccess      \* the filesystem calls that execute made

httpVars == <<pc, request, invoked, steps, toolFailed, result, logged, response,
              escaped, cwd, lastExec, lastChdir>>
searchVars == <<content, query, contextLength, re, matches, sd, sdResult>>
benchVars == <<tcall, tret, disk, taccess>>
vars == <<pc, request, invoked, steps, toolFailed, result, logged, response,
          escaped, cwd, lastExec, lastChdir,
          content, query, contextLength, re, matches, sd, sdResult,
          tcall, tret, disk, taccess>>

Max(a, b) == IF a >= b THEN a ELSE b
Min(a, b) == IF a <= b THEN a ELSE b

(***************************************************************************)
(* The request slots of the host process.                                  *)
(***************************************************************************)
Requests == {"r1", "r2"}

\* stopWhen: stepCountIs(15)
MaxSteps == 15

(***************************************************************************)
(* Request bodies.  An optional JSON property is <<>> (absent) or <<v>>.   *)
(***************************************************************************)
BodyInvalid == [kind |-> "invalid"]   \* the bytes are not JSON
BodyNull == [kind |-> "null"]         \* the JSON value null
BodyScalar == [kind |-> "scalar"]     \* a JSON number, string, boolean or array

ObjectBodies ==
    [kind : {"object"},
     prompt : {<<>>, <<"">>, <<"Summarize">>},
     filePath : {<<>>, <<"">>, <<"a.txt">>},
     content : {<<>>, <<"">>, <<"Hello">>}]

Bodies == {BodyInvalid, BodyNull, BodyScalar} \cup ObjectBodies

\* await request.json(): rejects when the body is not JSON
RequestJsonThrows(body) == body.kind = "invalid"

\* const { prompt, filePath, content } = body: a TypeError on null, and
\* undefined for every property a value does not have
DestructureThrows(body) == body.kind = "null"

Destructure(body) ==
    IF body.kind = "object"
    THEN [prompt |-> body.prompt, filePath |-> body.filePath, content |-> body.content]
    ELSE [prompt |-> <<>>, filePath |-> <<>>, content |-> <<>>]

\* Truthy, were "" taken for a prompt
TruthyUnlessUndefined(opt) == opt # <<>>

\* JavaScript truthiness of an optional string: undefined and "" are falsy
Truthy(opt) == opt # <<>> /\ opt[1] # ""

\* BuildPrompt, were the content looked at before the filePath
BuildPromptContentFirst(prompt, filePath, contentField) ==
    IF Truthy(contentField)
    THEN prompt[1] \o "\n\nDocument content:\n" \o contentField[1]
    ELSE IF Truthy(filePath)
         THEN prompt[1] \o " (Document: " \o filePath[1] \o ")"
         ELSE prompt[1]

\* fullPrompt
BuildPrompt(prompt, filePath, contentField) ==
    IF Truthy(filePath)
    THEN prompt[1] \o " (Document: " \o filePath[1] \o ")"
    ELSE IF Truthy(contentField)
         THEN prompt[1] \o "\n\nDocument content:\n" \o contentField[1]
         ELSE prompt[1]

\* new Response(...) without a status has status 200
DefaultStatus == 200

MissingPromptResponse ==
    [status |-> 400, body |-> [error |-> "Prompt is required"]]

\* ErrorResponse, were the message of the error put in the body
ErrorResponseLeaking(e) ==
    [status |-> 500, body |-> [error |-> e]]

\* the catch of POST: the error e is logged, never put in the response
ErrorResponse(e) ==
    [status |-> 500, body |-> [error |-> "An error occurred processing the document"]]

\* SuccessResponse, were the whole result of documentAgent serialized
SuccessResponseWhole(agentResult) ==
    [status |-> DefaultStatus, body |-> agentResult]

\* JSON.stringify({ response: result.response })
SuccessResponse(agentResult) ==
    [status |-> DefaultStatus, body |-> [response |-> agentResult.response]]

(***************************************************************************)
(* The filesystem: absolute paths as sequences of names.                   *)
(***************************************************************************)
Rel(parts) == [abs |-> FALSE, parts |-> parts]
Abs(parts) == [abs |-> TRUE, parts |-> parts]

Dirs == {<<>>, <<"app">>, <<"app", "docs">>, <<"app", ".git">>}
Files == {<<"app", "notes.txt">>, <<"app", "docs", "report.txt">>,
          <<"app", ".git", "HEAD">>}

\* the directory the process starts in
InitCwd == <<"app">>

DotGit == Rel(<<".git">>)              \* ".git"
NodeModules == Rel(<<"node_modules">>) \* "node_modules"
Dot == Rel(<<".">>)                    \* "."
EmptyPath == Rel(<<>>)                 \* ""
BlankPath == Rel(<<"  ">>)             \* "  ", whitespace only

RECURSIVE Normalize(_, _)
Normalize(parts, acc) ==
    IF parts = <<>> THEN acc
    ELSE LET h == Head(parts) IN
         IF h = "." THEN Normalize(Tail(parts), acc)
         ELSE IF h = ".."
              THEN Normalize(Tail(parts),
                             IF acc = <<>> THEN acc ELSE SubSeq(acc, 1, Len(acc) - 1))
              ELSE Normalize(Tail(parts), Append(acc, h))

\* how the operating system resolves a path of the process
Resolve(base, p) == Normalize(IF p.abs THEN p.parts ELSE base \o p.parts, <<>>)

\* the error an fs call on path p raises, "" when the path is of the wanted kind
FsError(base, p, wanted) ==
    LET target == Resolve(base, p) IN
    IF p = EmptyPath \/ p = BlankPath THEN "ENOENT: no such file or directory"
    ELSE IF wanted = "dir" /\ target \in Dirs THEN ""
    ELSE IF wanted = "file" /\ target \in Files THEN ""
    ELSE IF target \in Files THEN "ENOTDIR: not a directory"
    ELSE IF target \in Dirs THEN "EISDIR: illegal operation on a directory"
    ELSE "ENOENT: no such file or directory"

Entries(dir) ==
    {f[Len(f)] : f \in {g \in Dirs \cup Files :
                          Len(g) = Len(dir) + 1 /\ SubSeq(g, 1, Len(dir)) = dir}}

\* ProcessChdir, were the working directory kept per call and not per process
ProcessChdirIgnored(base, p) ==
    LET err == FsError(base, p, "dir") IN
    [threw |-> err # "", error |-> err, cwd |-> base,
     access |-> [op |-> "chdir", path |-> Resolve(base, p)]]

\* process.chdir(p): throws, or the process has a new working directory
ProcessChdir(base, p) ==
    LET err == FsError(base, p, "dir") IN
    [threw |-> err # "", error |-> err,
     cwd |-> IF err = "" THEN Resolve(base, p) ELSE base,
     access |-> [op |-> "chdir", path |-> Resolve(base, p)]]

\* fs.readdirSync(p, { recursive: false }): a relative p is resolved against
\* the working directory of the process
ReaddirSync(base, p) ==
    LET err == FsError(base, p, "dir") IN
    [threw |-> err # "", error |-> err,
     output |-> IF err = "" THEN Entries(Resolve(base, p)) ELSE {},
     access |-> [op |-> "readdir", path |-> Resolve(base, p)]]

\* fs.readFileSync(p, "utf-8"); a file's text is named after its path
ReadFileSync(base, p) ==
    LET err == FsError(base, p, "file") IN
    [threw |-> err # "", error |-> err,
     output |-> IF err = "" THEN <<"text of", Resolve(base, p)>> ELSE <<>>,
     access |-> [op |-> "readFile", path |-> Resolve(base, p)]]

(***************************************************************************)
(* The tools.  An execution is [threw, value, cwd, accesses]: whether      *)
(* execute threw, the value it returned, the working directory it left,    *)
(* and the filesystem calls it made.  A path argument is <<>> (null) or    *)
(* <<p>> (the string p).                                                   *)
(***************************************************************************)
\* ChangeDirectoryExecute without its try/catch
ChangeDirectoryNoCatch(base, input) ==
    LET resolvedPath == input.path[1]
        o == ProcessChdir(base, resolvedPath)
    IN IF o.threw
       THEN [threw |-> TRUE, value |-> [error |-> o.error],
             cwd |-> o.cwd, accesses |-> <<o.access>>]
       ELSE [threw |-> FALSE,
             value |-> [success |-> TRUE, path |-> resolvedPath,
                        currentDirectory |-> o.cwd,
                        message |-> <<"Successfully changed to directory: ", o.cwd>>],
             cwd |-> o.cwd, accesses |-> <<o.access>>]

\* ChangeDirectoryExecute, were the path given reported as the directory
ChangeDirectoryEchoesPath(base, input) ==
    LET resolvedPath == input.path[1]
        o == ProcessChdir(base, resolvedPath)
    IN IF o.threw
       THEN [threw |-> FALSE,
             value |-> [success |-> FALSE, path |-> input.path[1], error |-> o.error],
             cwd |-> o.cwd, accesses |-> <<o.access>>]
       ELSE [threw |-> FALSE,
             value |-> [success |-> TRUE, path |-> resolvedPath,
                        currentDirectory |-> resolvedPath.parts,
                        message |-> <<"Successfully changed to directory: ", resolvedPath.parts>>],
             cwd |-> o.cwd, accesses |-> <<o.access>>]

\* change_directory
ChangeDirectoryExecute(base, input) ==
    LET resolvedPath == input.path[1]   \* path.startsWith('/') ? path : path
        o == ProcessChdir(base, resolvedPath)
    IN IF o.threw
       THEN [threw |-> FALSE,
             value |-> [success |-> FALSE, path |-> input.path[1], error |-> o.error],
             cwd |-> o.cwd, accesses |-> <<o.access>>]
       ELSE [threw |-> FALSE,
             value |-> [success |-> TRUE, path |-> resolvedPath,
                        currentDirectory |-> o.cwd,
                        message |-> <<"Successfully changed to directory: ", o.cwd>>],
             cwd |-> o.cwd, accesses |-> <<o.access>>]

\* generatedPath?.trim() is falsy for null, "" and whitespace
TrimIsEmpty(opt) == opt = <<>> \/ opt[1] = EmptyPath \/ opt[1] = BlankPath

\* ListFilesExecute, were the directory read before the protected paths are refused
ListFilesGuardAfterRead(base, input) ==
    LET generatedPath == input.path
        targetPath == IF TrimIsEmpty(generatedPath) THEN Dot ELSE generatedPath[1]
        o == ReaddirSync(base, targetPath)
    IN IF generatedPath = <<DotGit>> \/ generatedPath = <<NodeModules>>
       THEN [threw |-> FALSE,
             value |-> [error |-> "Cannot list protected path",
                        generatedPath |-> generatedPath],
             cwd |-> base, accesses |-> <<o.access>>]
       ELSE IF o.threw
            THEN [threw |-> FALSE, value |-> [error |-> o.error],
                  cwd |-> base, accesses |-> <<o.access>>]
            ELSE [threw |-> FALSE, value |-> [path |-> targetPath, output |-> o.output],
                  cwd |-> base, accesses |-> <<o.access>>]

\* list_files
ListFilesExecute(base, input) ==
    LET generatedPath == input.path
    IN IF generatedPath = <<DotGit>> \/ generatedPath = <<NodeModules>>
       THEN [threw |-> FALSE,
             value |-> [error |-> "Cannot list protected path",
                        generatedPath |-> generatedPath],
             cwd |-> base, accesses |-> <<>>]
       ELSE LET targetPath == IF TrimIsEmpty(generatedPath) THEN Dot
                              ELSE generatedPath[1]
                o == ReaddirSync(base, targetPath)
            IN IF o.threw
               THEN [threw |-> FALSE, value |-> [error |-> o.error],
                     cwd |-> base, accesses |-> <<o.access>>]
               ELSE [threw |-> FALSE,
                     value |-> [path |-> targetPath, output |-> o.output],
                     cwd |-> base, accesses |-> <<o.access>>]

\* read_file
ReadFileExecute(base, input) ==
    LET o == ReadFileSync(base, input.path[1])
    IN IF o.threw
       THEN [threw |-> FALSE, value |-> [path |-> input.path[1], error |-> o.error],
             cwd |-> base, accesses |-> <<o.access>>]
       ELSE [threw |-> FALSE, value |-> [path |-> input.path[1], output |-> o.output],
             cwd |-> base, accesses |-> <<o.access>>]

\* the tools registry: the execute of the tool a call names
Execute(base, call) ==
    CASE call.tool = "change_directory" -> ChangeDirectoryExecute(base, call.input)
      [] call.tool = "list_files" -> ListFilesExecute(base, call.input)
      [] call.tool = "read_file" -> ReadFileExecute(base, call.input)

\* a tool result that reports a failure to the model
IsErrorResult(value) == "error" \in DOMAIN value

(***************************************************************************)
(* What the hosted model may ask for, and what may come back from it.      *)
(***************************************************************************)
ChdirPaths == {Rel(<<"docs">>), Rel(<<"..">>), Abs(<<"app">>), Rel(<<"missing">>)}
ListPaths == {<<>>, <<Dot>>, <<DotGit>>, <<NodeModules>>, <<BlankPath>>,
              <<Rel(<<"docs">>)>>, <<Rel(<<"missing">>)>>}
ReadPaths == {Rel(<<"notes.txt">>), Rel(<<"docs">>)}

ToolCalls ==
    {[tool |-> "change_directory", input |-> [path |-> <<p>>]] : p \in ChdirPaths}
    \cup {[tool |-> "list_files", input |-> [path |-> p]] : p \in ListPaths}
    \cup {[tool |-> "read_file", input |-> [path |-> <<p>>]] : p \in ReadPaths}

\* the calls of two sessions that share the process
SharedToolCalls ==
    {[tool |-> "change_directory", input |-> [path |-> <<p>>]] :
        p \in {Rel(<<"docs">>), Abs(<<"app">>)}}
    \cup {[tool |-> "list_files", input |-> [path |-> p]] :
        p \in {<<Dot>>}}

Texts == {"Done.", "The file lists three items."}
ProviderErrors == {"quota exceeded", "fetch failed"}

\* the tools whose path argument is resolved by the operating system
RelativePathTools == {"list_files", "read_file"}

NoExec == [req |-> "none"]
NoChdir == [by |-> "start", dir |-> InitCwd]

(***************************************************************************)
(* documentAgent and the generateText loop.                                *)
(***************************************************************************)
\* StopWhen, were the count compared one step late
StopWhenOffByOne(n) == n = MaxSteps + 1

\* stopWhen: stepCountIs(15)
StopWhen(n) == n = MaxSteps

\* what documentAgent returns: the text, tool calls and tool results of the last
\* step, and the usage
AgentResult(text, calls, values, n) ==
    [response |-> text, toolCalls |-> calls, toolResults |-> values,
     usage |-> [steps |-> n]]

HttpIdle ==
    /\ pc = [r \in Requests |-> "idle"]
    /\ request = [r \in Requests |-> <<>>]
    /\ invoked = [r \in Requests |-> <<>>]
    /\ steps = [r \in Requests |-> 0]
    /\ toolFailed = [r \in Requests |-> FALSE]
    /\ result = [r \in Requests |-> <<>>]
    /\ logged = [r \in Requests |-> <<>>]
    /\ response = [r \in Requests |-> <<>>]
    /\ escaped = [r \in Requests |-> <<>>]
    /\ cwd = InitCwd
    /\ lastExec = NoExec
    /\ lastChdir = NoChdir

SearchIdle ==
    /\ content = <<>>
    /\ query = <<>>
    /\ contextLength = 0
    /\ re = [source |-> <<>>, lastIndex |-> 0]
    /\ matches = <<>>
    /\ sd = "unused"
    /\ sdResult = <<>>

NoFiles == [p \in {} |-> <<>>]

BenchIdle ==
    /\ tcall = [tool |-> "none"]
    /\ tret = <<>>
    /\ disk = NoFiles
    /\ taccess = <<>>

\* POST, from the arrival of the request to its first await of the agent
POST(r, body) ==
    /\ pc[r] = "idle"
    /\ request' = [request EXCEPT ![r] = <<body>>]
    /\ IF RequestJsonThrows(body)
       THEN /\ escaped' = [escaped EXCEPT ![r] = <<"SyntaxError">>]
            /\ pc' = [pc EXCEPT ![r] = "done"]
            /\ UNCHANGED <<invoked, response>>
       ELSE IF DestructureThrows(body)
       THEN /\ escaped' = [escaped EXCEPT ![r] = <<"TypeError">>]
            /\ pc' = [pc EXCEPT ![r] = "done"]
            /\ UNCHANGED <<invoked, response>>
       ELSE LET b == Destructure(body) IN
            IF ~Truthy(b.prompt)
            THEN /\ response' = [response EXCEPT ![r] = <<MissingPromptResponse>>]
                 /\ pc' = [pc EXCEPT ![r] = "done"]
                 /\ UNCHANGED <<invoked, escaped>>
            ELSE /\ invoked' = [invoked EXCEPT ![r] =
                                  <<BuildPrompt(b.prompt, b.filePath, b.content)>>]
                 /\ pc' = [pc EXCEPT ![r] = "session"]
                 /\ UNCHANGED <<response, escaped>>
    /\ UNCHANGED <<steps, toolFailed, result, logged, cwd, lastExec, lastChdir>>
    /\ UNCHANGED searchVars
    /\ UNCHANGED benchVars

\* a step in which the model calls a tool: the tool runs, its result goes
\* back to the model, and the loop goes on unless the step cap is reached
AgentToolStep(r, call) ==
    /\ pc[r] = "session"
    /\ \E x \in {Execute(cwd, call)}, n \in {steps[r] + 1} :
          /\ steps' = [steps EXCEPT ![r] = n]
          /\ cwd' = x.cwd
          /\ lastExec' = [req |-> r, tool |-> call.tool, input |-> call.input,
                          base |-> cwd, threw |-> x.threw, value |-> x.value,
                          accesses |-> x.accesses]
          /\ lastChdir' = IF call.tool = "change_directory" /\ ~x.threw
                             /\ ~IsErrorResult(x.value)
                          THEN [by |-> r, dir |-> Resolve(cwd, call.input.path[1])]
                          ELSE lastChdir
          /\ IF x.threw
             THEN \* the exception leaves generateText and documentAgent
                  /\ logged' = [logged EXCEPT ![r] = <<x.value.error>>]
                  /\ response' = [response EXCEPT ![r] = <<ErrorResponse(x.value.error)>>]
                  /\ toolFailed' = [toolFailed EXCEPT ![r] = TRUE]
                  /\ result' = result
                  /\ pc' = [pc EXCEPT ![r] = "done"]
             ELSE /\ toolFailed' = [toolFailed EXCEPT ![r] = @ \/ IsErrorResult(x.value)]
                  /\ logged' = logged
                  /\ IF StopWhen(n)
                     THEN \* the text of the last step, which called a tool, is ""
                          \E res \in {AgentResult("", <<call>>, <<x.value>>, n)} :
                             /\ result' = [result EXCEPT ![r] = <<res>>]
                             /\ response' = [response EXCEPT ![r] =
                                               <<SuccessResponse(res)>>]
                             /\ pc' = [pc EXCEPT ![r] = "done"]
                     ELSE /\ result' = result
                          /\ response' = response
                          /\ pc' = pc
    /\ UNCHANGED <<request, invoked, escaped>>
    /\ UNCHANGED searchVars
    /\ UNCHANGED benchVars

\* a step in which the model answers with text and calls no tool: the loop
\* ends, documentAgent returns and POST answers
AgentFinalStep(r, text) ==
    /\ pc[r] = "session"
    /\ \E res \in {AgentResult(text, <<>>, <<>>, steps[r] + 1)} :
          /\ steps' = [steps EXCEPT ![r] = steps[r] + 1]
          /\ result' = [result EXCEPT ![r] = <<res>>]
          /\ response' = [response EXCEPT ![r] = <<SuccessResponse(res)>>]
    /\ pc' = [pc EXCEPT ![r] = "done"]
    /\ UNCHANGED <<request, invoked, toolFailed, logged, escaped, cwd, lastExec,
                   lastChdir>>
    /\ UNCHANGED searchVars
    /\ UNCHANGED benchVars

\* the call to the model provider fails: generateText rejects, documentAgent
\* rejects, and the catch of POST logs the error and answers
AgentFails(r, e) ==
    /\ pc[r] = "session"
    /\ logged' = [logged EXCEPT ![r] = <<e>>]
    /\ response' = [response EXCEPT ![r] = <<ErrorResponse(e)>>]
    /\ pc' = [pc EXCEPT ![r] = "done"]
    /\ UNCHANGED <<request, invoked, steps, toolFailed, result, escaped, cwd,
                   lastExec, lastChdir>>
    /\ UNCHANGED searchVars
    /\ UNCHANGED benchVars

\* the slot takes the next request; the process and its working directory go on
NextRequest(r) ==
    /\ pc[r] = "done"
    /\ pc' = [pc EXCEPT ![r] = "idle"]
    /\ request' = [request EXCEPT ![r] = <<>>]
    /\ invoked' = [invoked EXCEPT ![r] = <<>>]
    /\ steps' = [steps EXCEPT ![r] = 0]
    /\ toolFailed' = [toolFailed EXCEPT ![r] = FALSE]
    /\ result' = [result EXCEPT ![r] = <<>>]
    /\ logged' = [logged EXCEPT ![r] = <<>>]
    /\ response' = [response EXCEPT ![r] = <<>>]
    /\ escaped' = [escaped EXCEPT ![r] = <<>>]
    /\ lastChdir' = IF lastChdir.by = r THEN [lastChdir EXCEPT !.by = "earlier"]
                    ELSE lastChdir
    /\ UNCHANGED <<cwd, lastExec>>
    /\ UNCHANGED searchVars
    /\ UNCHANGED benchVars

(***************************************************************************)
(* Spec: one request at a time, every body, every tool call.               *)
(***************************************************************************)
Init == HttpIdle /\ SearchIdle /\ BenchIdle

Next ==
    \/ \E body \in Bodies : POST("r1", body)
    \/ \E call \in ToolCalls : AgentToolStep("r1", call)
    \/ \E text \in Texts : AgentFinalStep("r1", text)
    \/ \E e \in ProviderErrors : AgentFails("r1", e)
    \/ NextRequest("r1")

Spec == Init /\ [][Next]_vars

(***************************************************************************)
(* FairSessionSpec: the sessions of one request after another, under the   *)
(* assumption that the model provider answers every call made to it.       *)
(***************************************************************************)
SessionBodies == {[kind |-> "object", prompt |-> <<"Summarize">>,
                   filePath |-> <<"a.txt">>, content |-> <<>>]}

\* the model provider answers the call of the session of slot r
ModelAnswers(r) ==
    \/ \E call \in ToolCalls : AgentToolStep(r, call)
    \/ \E text \in Texts : AgentFinalStep(r, text)
    \/ \E e \in ProviderErrors : AgentFails(r, e)

SessionNext ==
    \/ \E body \in SessionBodies : POST("r1", body)
    \/ ModelAnswers("r1")
    \/ NextRequest("r1")

FairSessionSpec ==
    /\ Init
    /\ [][SessionNext]_vars
    /\ WF_vars(ModelAnswers("r1"))

(***************************************************************************)
(* SharedSpec: two requests in flight in one process.                      *)
(***************************************************************************)
SharedBodies == {[kind |-> "object", prompt |-> <<"Summarize">>,
                  filePath |-> <<>>, content |-> <<>>]}

SharedNext ==
    \/ \E r \in Requests, body \in SharedBodies : POST(r, body)
    \/ \E r \in Requests, call \in SharedToolCalls : AgentToolStep(r, call)
    \/ \E r \in Requests : AgentFinalStep(r, "Done.")
    \/ \E r \in Requests, e \in ProviderErrors : AgentFails(r, e)

SharedSpec == Init /\ [][SharedNext]_vars

(***************************************************************************)
(* search_document.  Text is a sequence of one-character strings, offsets  *)
(* count from 0 as in JavaScript.                                          *)
(***************************************************************************)
\* the longest generated content and query
MaxLen == 3
MaxQueryLen == 2

\* contextLength: z.number().min(20).max(400)
MinContextLength == 20
MaxContextLength == 400

\* the matches the heap of the process has room for: more than any scan that
\* advances through a generated content can produce
HeapCapacity == 9 + 2 + MaxLen

ContentAlphabet == {"a", "A", ".", " "}
QueryAlphabet == {"a", "A", "."}

RECURSIVE SeqsUpTo(_, _)
SeqsUpTo(alphabet, n) ==
    IF n = 0 THEN {<<>>}
    ELSE LET shorter == SeqsUpTo(alphabet, n - 1) IN
         shorter \cup {Append(t, c) : t \in shorter, c \in alphabet}

Str_abcXYZdef == <<"a", "b", "c", "X", "Y", "Z", "d", "e", "f">>
Str_XYZ == <<"X", "Y", "Z">>

Contents == SeqsUpTo(ContentAlphabet, MaxLen) \cup {Str_abcXYZdef}
Queries == SeqsUpTo(QueryAlphabet, MaxQueryLen) \cup {Str_XYZ}
ContextLengths == {1, 3, MinContextLength}

\* what the input schema of search_document accepts
SchemaValid(len) == MinContextLength <= len /\ len <= MaxContextLength

\* the characters [.*+?^${}()|[\]\\] of the escaping replace
RegexSpecials == {".", "*", "+", "?", "^", "$", "{", "}", "(", ")", "|", "[", "]", "\\"}

\* query.replace(/[.*+?^${}()|[\]\\]/g, "\\$&")
RECURSIVE EscapeQuery(_)
EscapeQuery(q) ==
    IF q = <<>> THEN <<>>
    ELSE (IF Head(q) \in RegexSpecials THEN <<"\\", Head(q)>> ELSE <<Head(q)>>)
         \o EscapeQuery(Tail(q))

\* new RegExp(source): the atoms of the pattern. An escaped character stands
\* for itself, an unescaped "." for any character but a line break
RECURSIVE Compile(_)
Compile(source) ==
    IF source = <<>> THEN <<>>
    ELSE IF Head(source) = "\\" /\ Len(source) >= 2
         THEN <<[kind |-> "lit", ch |-> source[2]]>> \o Compile(Tail(Tail(source)))
         ELSE IF Head(source) = "."
              THEN <<[kind |-> "any", ch |-> "."]>> \o Compile(Tail(source))
              ELSE <<[kind |-> "lit", ch |-> Head(source)]>> \o Compile(Tail(source))

\* the i flag: letters are compared by their lower case
Lower(c) ==
    CASE c = "A" -> "a"
      [] c = "X" -> "x"
      [] c = "Y" -> "y"
      [] c = "Z" -> "z"
      [] OTHER -> c

\* AtomMatches, were the pattern compiled without the i flag
AtomMatchesCaseSensitive(atom, c) ==
    IF atom.kind = "any" THEN c # "\n" ELSE atom.ch = c

AtomMatches(atom, c) ==
    IF atom.kind = "any" THEN c # "\n" ELSE Lower(atom.ch) = Lower(c)

\* the pattern matches the text at offset i
MatchAt(atoms, text, i) ==
    /\ i + Len(atoms) <= Len(text)
    /\ \A k \in 1..Len(atoms) : AtomMatches(atoms[k], text[i + k])

\* re.exec(text) of a global RegExp: the first match at or after lastIndex,
\* after which lastIndex is the end of the match; null resets lastIndex to 0
Exec(regex, text) ==
    LET atoms == Compile(regex.source)
        hits == {i \in regex.lastIndex..Len(text) : MatchAt(atoms, text, i)}
    IN IF hits = {}
       THEN [found |-> FALSE, index |-> 0, length |-> 0, lastIndex |-> 0]
       ELSE LET i == CHOOSE h \in hits : \A g \in hits : h <= g IN
            [found |-> TRUE, index |-> i, length |-> Len(atoms),
             lastIndex |-> i + Len(atoms)]

\* text.slice(start, end) for 0 <= start, end <= length
Slice(text, start, end) == SubSeq(text, start + 1, end)

Whitespace == {" ", "\n", "\t", "\r"}

\* text.trim()
RECURSIVE Trim(_)
Trim(text) ==
    IF text = <<>> THEN text
    ELSE IF Head(text) \in Whitespace THEN Trim(Tail(text))
    ELSE IF text[Len(text)] \in Whitespace THEN Trim(SubSeq(text, 1, Len(text) - 1))
    ELSE text

\* WindowStart, were the window one character short on the left
WindowStartShort(index, len) == Max(0, index - len + 1)

\* Math.max(0, m.index - contextLength)
WindowStart(index, len) == Max(0, index - len)

\* WindowEnd, were the window one character short on the right
WindowEndShort(text, index, matched, len) == Min(Len(text), index + matched + len - 1)

\* Math.min(content.length, m.index + m[0].length + contextLength)
WindowEnd(text, index, matched, len) == Min(Len(text), index + matched + len)

\* one entry of matches
MatchEntry(text, m, len) ==
    [text |-> Trim(Slice(text, WindowStart(m.index, len),
                         WindowEnd(text, m.index, m.length, len))),
     position |-> m.index]

SearchInit ==
    /\ HttpIdle
    /\ BenchIdle
    /\ content \in Contents
    /\ query \in Queries
    /\ contextLength \in ContextLengths
    /\ re = [source |-> <<>>, lastIndex |-> 0]
    /\ matches = <<>>
    /\ sd = "called"
    /\ sdResult = <<>>

\* execute starts: the RegExp is built and matches is empty
SearchStart ==
    /\ sd = "called"
    /\ re' = [source |-> EscapeQuery(query), lastIndex |-> 0]
    /\ matches' = <<>>
    /\ sd' = "scanning"
    /\ UNCHANGED <<content, query, contextLength, sdResult>>
    /\ UNCHANGED httpVars
    /\ UNCHANGED benchVars

\* one turn of the while loop in which exec finds a match
SearchMatch ==
    /\ sd = "scanning"
    /\ Len(matches) < HeapCapacity
    /\ \E m \in {Exec(re, content)} :
          /\ m.found
          /\ re' = [re EXCEPT !.lastIndex = m.lastIndex]
          /\ matches' = Append(matches, MatchEntry(content, m, contextLength))
    /\ UNCHANGED <<content, query, contextLength, sd, sdResult>>
    /\ UNCHANGED httpVars
    /\ UNCHANGED benchVars

\* exec returns null: the loop ends and execute returns
SearchReturn ==
    /\ sd = "scanning"
    /\ \E m \in {Exec(re, content)} :
          /\ ~m.found
          /\ re' = [re EXCEPT !.lastIndex = m.lastIndex]
    /\ sdResult' = <<[query |-> query, matches |-> matches,
                      totalMatches |-> Len(matches)]>>
    /\ sd' = "returned"
    /\ UNCHANGED <<content, query, contextLength, matches>>
    /\ UNCHANGED httpVars
    /\ UNCHANGED benchVars

\* exec finds one more match and the heap has no room for it: the process
\* ends with a fatal out-of-memory error, which no catch sees
SearchExhaust ==
    /\ sd = "scanning"
    /\ Len(matches) >= HeapCapacity
    /\ Exec(re, content).found
    /\ sd' = "aborted"
    /\ UNCHANGED <<content, query, contextLength, re, matches, sdResult>>
    /\ UNCHANGED httpVars
    /\ UNCHANGED benchVars

SearchNext == SearchStart \/ SearchMatch \/ SearchReturn \/ SearchExhaust

SearchSpec == SearchInit /\ [][SearchNext]_vars

(***************************************************************************)
(* Properties of the POST route.                                           *)
(***************************************************************************)
\* the request in slot r parses to a JSON value that has no prompt, or an
\* empty one
PromptMissing(r) ==
    /\ request[r] # <<>>
    /\ \/ request[r][1].kind = "scalar"
       \/ /\ request[r][1].kind = "object"
          /\ request[r][1].prompt \in {<<>>, <<"">>}

\* C1: a POST whose JSON body has no prompt (absent, or the empty string) is
\* answered with status 400 and body {"error":"Prompt is required"}, and
\* documentAgent is never invoked for that request.
C1_MissingPrompt400 ==
    \A r \in Requests :
        PromptMissing(r) =>
            /\ pc[r] = "done"
            /\ response[r] = <<[status |-> 400, body |-> [error |-> "Prompt is required"]]>>
            /\ invoked[r] = <<>>
            /\ steps[r] = 0
            /\ result[r] = <<>>

C1_Witness ==
    /\ request["r1"] # <<>>
    /\ request["r1"][1].kind = "object"
    /\ request["r1"][1].prompt = <<"">>
    /\ request["r1"][1].filePath = <<"a.txt">>
    /\ response["r1"] # <<>>
    /\ response["r1"][1].status = 400

\* C2: every POST that has ended was answered with a 200, 400 or 500
\* response; no exception leaves POST, whatever step fails.
C2_NoExceptionLeavesPOST ==
    \A r \in Requests :
        pc[r] = "done" =>
            /\ escaped[r] = <<>>
            /\ response[r] # <<>>
            /\ response[r][1].status \in {200, 400, 500}

\* C3: when the agent invocation throws, whatever the error, the response is
\* status 500 with body {"error":"An error occurred processing the document"};
\* two requests that fail with different errors get identical responses.
C3_Generic500 ==
    /\ \A r \in Requests :
          logged[r] # <<>> =>
              response[r] = <<[status |-> 500,
                               body |-> [error |-> "An error occurred processing the document"]]>>
    /\ \A r1, r2 \in Requests :
          logged[r1] # <<>> /\ logged[r2] # <<>> => response[r1] = response[r2]

C3_Witness ==
    /\ logged["r1"] = <<"quota exceeded">>
    /\ logged["r2"] = <<"fetch failed">>
    /\ response["r1"] # <<>>
    /\ response["r2"] # <<>>

\* C4: when the prompt is present and the agent invocation returns, the
\* response has status 200 and a body whose only field is response, equal to
\* the final text of the model; toolCalls, toolResults and usage are not in it.
C4_SuccessBody ==
    \A r \in Requests :
        result[r] # <<>> =>
            /\ pc[r] = "done"
            /\ response[r] # <<>>
            /\ response[r][1].status = 200
            /\ DOMAIN response[r][1].body = {"response"}
            /\ response[r][1].body.response = result[r][1].response

C4_Witness ==
    /\ result["r1"] # <<>>
    /\ result["r1"][1].response = "The file lists three items."
    /\ result["r1"][1].usage.steps > 1
    /\ lastExec # NoExec
    /\ response["r1"] # <<>>

(***************************************************************************)
(* Properties of the agent session and of the tools it runs.               *)
(***************************************************************************)
\* C5: every execution of a tool on schema-valid input that has stopped has
\* returned a value (here for search_document): it neither threw nor ended
\* without a result.
C5_ExecuteReturnsValue ==
    SchemaValid(contextLength) /\ sd \notin {"called", "scanning"} =>
        sd = "returned" /\ sdResult # <<>>

\* the session of slot r never goes past its 15th step, and after the 15th
\* step it is over; a session that ended without a provider error has
\* returned a text
StepCap(r) ==
    /\ steps[r] <= 15
    /\ pc[r] = "session" => steps[r] < 15
    /\ pc[r] = "done" /\ invoked[r] # <<>> /\ logged[r] = <<>> =>
          /\ result[r] # <<>>
          /\ result[r][1].usage.steps = steps[r]
          /\ result[r][1].response \in Texts \cup {""}

C7_ToolFailureDoesNotAbort ==
    /\ lastExec # NoExec => ~lastExec.threw
    /\ \A r \in Requests :
          /\ logged[r] # <<>> => logged[r][1] \in ProviderErrors
          /\ toolFailed[r] =>
                \/ pc[r] = "session"
                \/ /\ pc[r] = "done"
                   /\ response[r] # <<>>
                   /\ \/ response[r][1].status = 200 /\ result[r] # <<>>
                      \/ response[r][1].status = 500 /\ logged[r] # <<>>

C7_Witness ==
    /\ toolFailed["r1"]
    /\ lastExec # NoExec
    /\ lastExec.tool = "change_directory"
    /\ lastExec.value.success = FALSE
    /\ pc["r1"] = "done"
    /\ steps["r1"] < 15
    /\ response["r1"] # <<>>
    /\ response["r1"][1].status = 200
    /\ response["r1"][1].body.response = "Done."

\* the path of the latest execution is one the operating system resolves
\* against the working directory
LastExecRelative ==
    /\ lastExec # NoExec
    /\ lastExec.tool \in RelativePathTools
    /\ lastExec.accesses # <<>>
    /\ lastExec.input.path = <<>> \/ ~lastExec.input.path[1].abs

\* the path handed to the filesystem call of the latest execution
LastExecTarget ==
    IF TrimIsEmpty(lastExec.input.path) THEN Dot ELSE lastExec.input.path[1]

\* a step of one request changes nothing that belongs to another request
OnlyOwnSlotChanges ==
    \E r \in Requests : \A o \in Requests \ {r} :
        /\ pc'[o] = pc[o]
        /\ request'[o] = request[o]
        /\ invoked'[o] = invoked[o]
        /\ steps'[o] = steps[o]
        /\ toolFailed'[o] = toolFailed[o]
        /\ result'[o] = result[o]
        /\ logged'[o] = logged[o]
        /\ response'[o] = response[o]
        /\ escaped'[o] = escaped[o]

\* C8: the working directory of the process is the only state the requests
\* share, and it leaks: the working directory is the one the latest
\* successful change_directory of any session set, and a relative-path tool
\* call of a session is resolved against it, whichever session set it.
C8_WorkingDirectoryShared ==
    /\ [](cwd = lastChdir.dir)
    /\ [](LastExecRelative =>
            lastExec.accesses[1].path = Resolve(lastChdir.dir, LastExecTarget))
    /\ [][OnlyOwnSlotChanges]_vars

C8_Witness ==
    /\ pc["r1"] = "session"
    /\ pc["r2"] = "session"
    /\ lastChdir = [by |-> "r1", dir |-> <<"app", "docs">>]
    /\ lastExec # NoExec
    /\ lastExec.req = "r2"
    /\ lastExec.tool = "list_files"
    /\ lastExec.input.path = <<Dot>>
    /\ lastExec.value.output = {"report.txt"}

\* C9: list_files with path exactly ".git" or "node_modules" returns an error
\* result and makes no filesystem call, whatever the filesystem state.
C9_ProtectedPathsUntouched ==
    lastExec # NoExec /\ lastExec.tool = "list_files"
        /\ lastExec.input.path \in {<<Rel(<<".git">>)>>, <<Rel(<<"node_modules">>)>>} =>
            /\ ~lastExec.threw
            /\ IsErrorResult(lastExec.value)
            /\ lastExec.accesses = <<>>

C9_Witness ==
    /\ lastExec # NoExec
    /\ lastExec.tool = "list_files"
    /\ lastExec.input.path = <<Rel(<<".git">>)>>
    /\ lastExec.base = <<"app">>
    /\ IsErrorResult(lastExec.value)

(***************************************************************************)
(* Properties of search_document.                                          *)
(***************************************************************************)
SearchedXYZ ==
    /\ sd = "returned"
    /\ content = Str_abcXYZdef
    /\ query = Str_XYZ
    /\ contextLength = 3

\* C10 as stated: content "abcXYZdef", query "XYZ", contextLength 3 give
\* exactly one match, whose text is "bcXYZde" and whose position is 3.
C10_Original ==
    SearchedXYZ =>
        sdResult[1].matches =
            <<[text |-> <<"b", "c", "X", "Y", "Z", "d", "e">>, position |-> 3]>>

\* C10: content "abcXYZdef", query "XYZ", contextLength 3 give exactly one
\* match, whose text is the whole content "abcXYZdef" (the three characters
\* on each side of the match) and whose position is 3.
C10_WindowOfThree ==
    SearchedXYZ =>
        /\ sdResult[1].totalMatches = 1
        /\ sdResult[1].matches =
              <<[text |-> <<"a", "b", "c", "X", "Y", "Z", "d", "e", "f">>,
                 position |-> 3]>>

C10_Witness ==
    /\ SearchedXYZ
    /\ sdResult # <<>>
    /\ Len(sdResult[1].matches) = 1

\* ---------------------------------------------------------------------
\* analyze_document (src/utils/agent.ts, 183-236), called on its own
\* ---------------------------------------------------------------------

UpperCase == <<"A", "B", "C", "D", "E", "F", "G", "H", "I", "J", "K", "L", "M",
               "N", "O", "P", "Q", "R", "S", "T", "U", "V", "W", "X", "Y", "Z">>
LowerCase == <<"a", "b", "c", "d", "e", "f", "g", "h", "i", "j", "k", "l", "m",
               "n", "o", "p", "q", "r", "s", "t", "u", "v", "w", "x", "y", "z">>
Digits == <<"0", "1", "2", "3", "4", "5", "6", "7", "8", "9">>

Range(f) == {f[i] : i \in DOMAIN f}
UpperChars == Range(UpperCase)
LowerChars == Range(LowerCase)
DigitChars == Range(Digits)

\* \w of a JavaScript regular expression
WordChars == UpperChars \cup LowerChars \cup DigitChars \cup {"_"}

\* the text of a string literal, one character per element
Chars(str) ==
    CASE str = "the" -> <<"t", "h", "e">>
      [] str = "a" -> <<"a">>
      [] str = "an" -> <<"a", "n">>
      [] str = "and" -> <<"a", "n", "d">>
      [] str = "or" -> <<"o", "r">>
      [] str = "but" -> <<"b", "u", "t">>
      [] str = "in" -> <<"i", "n">>
      [] str = "on" -> <<"o", "n">>
      [] str = "at" -> <<"a", "t">>
      [] str = "to" -> <<"t", "o">>
      [] str = "for" -> <<"f", "o", "r">>
      [] str = "of" -> <<"o", "f">>
      [] str = "with" -> <<"w", "i", "t", "h">>
      [] str = "by" -> <<"b", "y">>
      [] str = "is" -> <<"i", "s">>
      [] str = "are" -> <<"a", "r", "e">>
      [] str = "was" -> <<"w", "a", "s">>
      [] str = "were" -> <<"w", "e", "r", "e">>
      [] str = "be" -> <<"b", "e">>
      [] str = "been" -> <<"b", "e", "e", "n">>
      [] str = "have" -> <<"h", "a", "v", "e">>
      [] str = "has" -> <<"h", "a", "s">>
      [] str = "had" -> <<"h", "a", "d">>
      [] str = "do" -> <<"d", "o">>
      [] str = "does" -> <<"d", "o", "e", "s">>
      [] str = "did" -> <<"d", "i", "d">>
      [] str = "will" -> <<"w", "i", "l", "l">>
      [] str = "would" -> <<"w", "o", "u", "l", "d">>
      [] str = "could" -> <<"c", "o", "u", "l", "d">>
      [] str = "should" -> <<"s", "h", "o", "u", "l", "d">>
      [] str = "filename" -> <<"f", "i", "l", "e", "n", "a", "m", "e">>
      [] str = "summary" -> <<"s", "u", "m", "m", "a", "r", "y">>
      [] str = "keyPoints" -> <<"k", "e", "y", "P", "o", "i", "n", "t", "s">>
      [] str = "entities" -> <<"e", "n", "t", "i", "t", "i", "e", "s">>
      [] str = "topics" -> <<"t", "o", "p", "i", "c", "s">>
      [] str = "wordCount" -> <<"w", "o", "r", "d", "C", "o", "u", "n", "t">>
      [] str = "sourceFile" -> <<"s", "o", "u", "r", "c", "e", "F", "i", "l", "e">>
      [] str = "generatedAt" -> <<"g", "e", "n", "e", "r", "a", "t", "e", "d", "A", "t">>
      [] str = ".json" -> <<".", "j", "s", "o", "n">>
      [] str = ".csv" -> <<".", "c", "s", "v">>
      [] str = ".html" -> <<".", "h", "t", "m", "l">>
      [] str = ".htm" -> <<".", "h", "t", "m">>
      [] str = ".pdf" -> <<".", "p", "d", "f">>
      [] str = ".txt" -> <<".", "t", "x", "t">>
      [] str = ".md" -> <<".", "m", "d">>
      [] str = "" -> <<>>
      [] str = "doc.json" -> <<"d", "o", "c", ".", "j", "s", "o", "n">>
      [] str = "doc.csv" -> <<"d", "o", "c", ".", "c", "s", "v">>
      [] str = "doc.html" -> <<"d", "o", "c", ".", "h", "t", "m", "l">>
      [] str = "doc.htm" -> <<"d", "o", "c", ".", "h", "t", "m">>
      [] str = "DOC.HTM" -> <<"D", "O", "C", ".", "H", "T", "M">>
      [] str = "doc.pdf" -> <<"d", "o", "c", ".", "p", "d", "f">>
      [] str = "Doc.PDF" -> <<"D", "o", "c", ".", "P", "D", "F">>
      [] str = "doc.txt" -> <<"d", "o", "c", ".", "t", "x", "t">>
      [] str = "doc.md" -> <<"d", "o", "c", ".", "m", "d">>
      [] str = "doc.docx" -> <<"d", "o", "c", ".", "d", "o", "c", "x">>
      [] str = "doc.tar.gz" -> <<"d", "o", "c", ".", "t", "a", "r", ".", "g", "z">>
      [] str = "doc." -> <<"d", "o", "c", ".">>
      [] str = "README" -> <<"R", "E", "A", "D", "M", "E">>
      [] str = ".env" -> <<".", "e", "n", "v">>
      [] str = "report.txt" -> <<"r", "e", "p", "o", "r", "t", ".", "t", "x", "t">>
      [] str = "notes.txt" -> <<"n", "o", "t", "e", "s", ".", "t", "x", "t">>
      [] str = "out.json" -> <<"o", "u", "t", ".", "j", "s", "o", "n">>
      [] str = "missing.pdf" -> <<"m", "i", "s", "s", "i", "n", "g", ".", "p", "d", "f">>
      [] str = "missing.json" -> <<"m", "i", "s", "s", "i", "n", "g", ".", "j", "s", "o", "n">>
      [] str = "missing" -> <<"m", "i", "s", "s", "i", "n", "g">>
      [] str = "docs" -> <<"d", "o", "c", "s">>
      [] str = "app" -> <<"a", "p", "p">>
      [] str = "HEAD" -> <<"H", "E", "A", "D">>
      [] str = ".git" -> <<".", "g", "i", "t">>
      [] str = "node_modules" -> <<"n", "o", "d", "e", "_", "m", "o", "d", "u", "l", "e", "s">>
      [] str = "." -> <<".">>
      [] str = ".." -> <<".", ".">>
      [] str = "  " -> <<" ", " ">>

\* content.toLowerCase(), one character
ToLowerCase(c) ==
    IF c \in UpperChars
    THEN LowerCase[CHOOSE i \in DOMAIN UpperCase : UpperCase[i] = c]
    ELSE c

\* text.toLowerCase()
Lowered(text) == [i \in DOMAIN text |-> ToLowerCase(text[i])]

\* text.replace(/[^keep]/g, ""): the characters of the class, in their order
SelectChars(text, keep) == SelectSeq(text, LAMBDA c : c \in keep)

\* text.split(/[seps]+/): the pieces between the maximal runs of separator
\* characters; a run at either end leaves an empty piece there, and a
\* text without separators (the empty text included) is one piece
\* The pieces from position i on: the piece up to the next separator, and
\* the pieces behind the run that separator begins.
RECURSIVE SplitFrom(_, _, _)
SplitFrom(text, i, seps) ==
    LET found == {j \in i..Len(text) : text[j] \in seps} IN
    IF found = {} THEN <<SubSeq(text, i, Len(text))>>
    ELSE LET at == CHOOSE j \in found : \A k \in found : j <= k
             ends == {j \in at..Len(text) :
                         /\ \A k \in at..j : text[k] \in seps
                         /\ (j = Len(text) \/ text[j + 1] \notin seps)}
             end == CHOOSE j \in ends : TRUE
         IN  <<SubSeq(text, i, at - 1)>> \o SplitFrom(text, end + 1, seps)

SplitRuns(text, seps) == SplitFrom(text, 1, seps)

\* .filter(Boolean) on an array of strings
FilterBoolean(pieces) == SelectSeq(pieces, LAMBDA t : t # <<>>)

SentenceEnds == {".", "!", "?"}
MinFragment == 10

\* line 193
Fragments(text) ==
    SelectSeq(SplitRuns(text, SentenceEnds), LAMBDA t : Len(Trim(t)) > MinFragment)

\* Words, were the punctuation left in the text
WordsKeepingPunctuation(text) ==
    FilterBoolean(SplitRuns(Lowered(text), Whitespace))

\* line 194
Words(text) ==
    FilterBoolean(SplitRuns(SelectChars(Lowered(text),
                                        WordChars \cup Whitespace),
                            Whitespace))

StopWordList ==
    <<"the", "a", "an", "and", "or", "but", "in", "on", "at", "to", "for", "of",
      "with", "by", "is", "are", "was", "were", "be", "been", "have", "has",
      "had", "do", "does", "did", "will", "would", "could", "should">>

stopWords == {Chars(StopWordList[i]) : i \in DOMAIN StopWordList}

MinTopicLength == 3
MaxTopics == 10

DigitValue(c) == (CHOOSE i \in DOMAIN Digits : Digits[i] = c) - 1

\* a < b for two digit strings without leading zeros
RECURSIVE DigitsBelow(_, _)
DigitsBelow(a, b) ==
    IF Len(a) # Len(b) THEN Len(a) < Len(b)
    ELSE IF a = <<>> THEN FALSE
    ELSE IF Head(a) # Head(b) THEN DigitValue(Head(a)) < DigitValue(Head(b))
    ELSE DigitsBelow(Tail(a), Tail(b))

\* 2^32 - 1, the first integer that is not an array index
MaxArrayIndex == <<"4", "2", "9", "4", "9", "6", "7", "2", "9", "5">>

\* A property key that is an array index: the canonical decimal form of an
\* integer below 2^32 - 1. An object enumerates these keys first, in
\* ascending numeric order, and the other string keys after them in the
\* order of their creation.
IsArrayIndex(key) ==
    /\ key # <<>>
    /\ \A i \in DOMAIN key : key[i] \in DigitChars
    /\ (Len(key) > 1 => key[1] # "0")
    /\ DigitsBelow(key, MaxArrayIndex)

HasKey(entries, key) == \E i \in DOMAIN entries : entries[i].word = key

\* the place a new key takes among the keys of an object: array indices
\* first, ascending, then the other keys in creation order
KeyPlace(keys, key) ==
    IF IsArrayIndex(key)
    THEN 1 + Cardinality({i \in DOMAIN keys :
                            IsArrayIndex(keys[i]) /\ DigitsBelow(keys[i], key)})
    ELSE Len(keys) + 1

\* where the new key takes its place in Object.entries(freq)
InsertAt(entries, key) == KeyPlace([i \in DOMAIN entries |-> entries[i].word], key)

\* freq[w] = (freq[w] || 0) + 1, line 223; entries is Object.entries(freq)
Count(entries, key) ==
    IF HasKey(entries, key)
    THEN [i \in DOMAIN entries |->
            IF entries[i].word = key
            THEN [word |-> key, count |-> entries[i].count + 1]
            ELSE entries[i]]
    ELSE LET at == InsertAt(entries, key) IN
         SubSeq(entries, 1, at - 1) \o <<[word |-> key, count |-> 1]>>
             \o SubSeq(entries, at, Len(entries))

\* words.forEach(...), lines 221-225
RECURSIVE Freq(_, _)
Freq(words, entries) ==
    IF words = <<>> THEN entries
    ELSE IF Len(Head(words)) > MinTopicLength /\ Head(words) \notin stopWords
         THEN Freq(Tail(words), Count(entries, Head(words)))
         ELSE Freq(Tail(words), entries)

\* .sort(([,a], [,b]) => b - a): descending count; Array.prototype.sort is
\* stable, so entries of equal count keep their enumeration order
RECURSIVE SortByCount(_)
SortByCount(entries) ==
    IF entries = <<>> THEN <<>>
    ELSE LET last == entries[Len(entries)]
             sorted == SortByCount(SubSeq(entries, 1, Len(entries) - 1))
             before == Cardinality({i \in DOMAIN sorted : sorted[i].count >= last.count})
         IN  SubSeq(sorted, 1, before) \o <<last>> \o SubSeq(sorted, before + 1, Len(sorted))

\* lines 226-229
Topics(words) ==
    LET sorted == SortByCount(Freq(words, <<>>))
        top == SubSeq(sorted, 1, Min(MaxTopics, Len(sorted)))
    IN  [i \in DOMAIN top |-> top[i].word]

\* fragments[i] of a JavaScript array: <<>> stands for undefined
At(array, i) == IF i >= 0 /\ i < Len(array) THEN <<array[i + 1]>> ELSE <<>>

RECURSIVE Join(_, _)
Join(pieces, sep) ==
    IF pieces = <<>> THEN <<>>
    ELSE IF Len(pieces) = 1 THEN pieces[1]
    ELSE pieces[1] \o sep \o Join(Tail(pieces), sep)

\* Math.floor(fragments.length / 2), were it rounded up
MiddleIndexCeil(n) == (n + 1) \div 2

MiddleIndex(n) == n \div 2

\* lines 198-204: the undefined elements and the empty strings are dropped
\* by filter(Boolean)
Summary(fragments) ==
    LET n == Len(fragments)
        picked == At(fragments, 0) \o At(fragments, MiddleIndex(n)) \o At(fragments, n - 1)
        summaryFragments == FilterBoolean(picked)
    IN  Join([i \in DOMAIN summaryFragments |-> Trim(summaryFragments[i])],
             <<".", " ">>) \o <<".">>

\* the number of consecutive characters of the class from position i on
RECURSIVE RunLength(_, _, _)
RunLength(text, i, class) ==
    IF i <= Len(text) /\ text[i] \in class
    THEN 1 + RunLength(text, i + 1, class)
    ELSE 0

StartsWith(text, i, prefix) ==
    /\ i + Len(prefix) - 1 <= Len(text)
    /\ SubSeq(text, i, i + Len(prefix) - 1) = prefix

\* \b between positions i - 1 and i
WordBoundary(text, i) ==
    LET before == i > 1 /\ text[i - 1] \in WordChars
        after == i <= Len(text) /\ text[i] \in WordChars
    IN  before # after

\* /\b[A-Z][a-z]+\b/: the length of the match at i, 0 when there is none.
\* The run of lower-case letters is greedy, and no shorter run can be
\* followed by a word boundary.
CapsAt(text, i) ==
    IF /\ text[i] \in UpperChars
       /\ WordBoundary(text, i)
       /\ RunLength(text, i + 1, LowerChars) >= 1
       /\ WordBoundary(text, i + 1 + RunLength(text, i + 1, LowerChars))
    THEN 1 + RunLength(text, i + 1, LowerChars)
    ELSE 0

Letters == UpperChars \cup LowerChars
LocalChars == Letters \cup DigitChars \cup {".", "_", "%", "+", "-"}
DomainChars == Letters \cup DigitChars \cup {".", "-"}
MinTld == 2

\* /[a-zA-Z0-9._%+-]+@[a-zA-Z0-9.-]+\.[a-zA-Z]{2,}/ at i: the domain part
\* is greedy, so it ends at the last dot of its run with two letters behind
EmailAt(text, i) ==
    LET local == RunLength(text, i, LocalChars)
        dom == i + local + 1
        run == RunLength(text, dom, DomainChars)
        dots == {k \in (dom + 1)..(dom + run - 1) :
                    /\ text[k] = "."
                    /\ RunLength(text, k + 1, Letters) >= MinTld}
    IN  IF /\ local >= 1
           /\ i + local <= Len(text)
           /\ text[i + local] = "@"
           /\ dots # {}
        THEN LET dot == CHOOSE k \in dots : \A j \in dots : j <= k
             IN  (dot - i + 1) + RunLength(text, dot + 1, Letters)
        ELSE 0

MinPhone == 10
MaxPhone == 11

\* /[1-9]?[0-9]{10,11}/ at i: the leading digit is taken when the ten
\* digits after it are there, and given back otherwise
PhoneDigitsAt(text, i) ==
    LET run == RunLength(text, i, DigitChars) IN
    IF run >= 1 /\ text[i] # "0" /\ run - 1 >= MinPhone
    THEN 1 + Min(MaxPhone, run - 1)
    ELSE IF run >= MinPhone THEN Min(MaxPhone, run)
    ELSE 0

\* /[\+]?[1-9]?[0-9]{10,11}/ at i
PhoneAt(text, i) ==
    IF text[i] = "+"
    THEN IF PhoneDigitsAt(text, i + 1) > 0 THEN 1 + PhoneDigitsAt(text, i + 1) ELSE 0
    ELSE PhoneDigitsAt(text, i)

Http == <<"h", "t", "t", "p">>
SchemeEnd == <<":", "/", "/">>

\* the characters of the texts analysed here
TextChars == WordChars \cup Whitespace
                 \cup {".", "!", "?", ",", "@", ":", "/", "+", "-", "%", "<", ">"}

\* [^\s]
NonSpace == TextChars \ Whitespace

\* /https?:\/\/[^\s]+/ at i
UrlAt(text, i) ==
    LET head == IF StartsWith(text, i, Http \o <<"s">> \o SchemeEnd) THEN 8
                ELSE IF StartsWith(text, i, Http \o SchemeEnd) THEN 7
                ELSE 0
        rest == RunLength(text, i + head, NonSpace)
    IN  IF head > 0 /\ rest >= 1 THEN head + rest ELSE 0

MatchLengthAt(kind, text, i) ==
    CASE kind = "caps" -> CapsAt(text, i)
      [] kind = "emails" -> EmailAt(text, i)
      [] kind = "phones" -> PhoneAt(text, i)
      [] kind = "urls" -> UrlAt(text, i)

\* content.match(/.../g) || []: the matches from left to right, each search
\* resuming where the previous match ended
RECURSIVE MatchAll(_, _, _)
MatchAll(kind, text, i) ==
    LET found == {j \in i..Len(text) : MatchLengthAt(kind, text, j) > 0} IN
    IF found = {} THEN <<>>
    ELSE LET at == CHOOSE j \in found : \A k \in found : j <= k
             n == MatchLengthAt(kind, text, at)
         IN  <<SubSeq(text, at, at + n - 1)>> \o MatchAll(kind, text, at + n)

\* [...new Set(array)]: the first occurrence of each element, in order
RECURSIVE Unique(_)
Unique(array) ==
    IF array = <<>> THEN <<>>
    ELSE LET init == Unique(SubSeq(array, 1, Len(array) - 1))
             last == array[Len(array)]
         IN  IF \E i \in DOMAIN init : init[i] = last THEN init ELSE Append(init, last)

MaxCaps == 20

\* Entities, were the capitalized words cut to 20 after the duplicates are dropped
EntitiesCutAfterUnique(text) ==
    LET caps == Unique(MatchAll("caps", text, 1))
        emails == MatchAll("emails", text, 1)
        phones == MatchAll("phones", text, 1)
        urls == MatchAll("urls", text, 1)
    IN  Unique(SubSeq(caps, 1, Min(MaxCaps, Len(caps))) \o emails \o phones \o urls)

\* lines 207-211
Entities(text) ==
    LET caps == MatchAll("caps", text, 1)
        emails == MatchAll("emails", text, 1)
        phones == MatchAll("phones", text, 1)
        urls == MatchAll("urls", text, 1)
    IN  Unique(SubSeq(caps, 1, Min(MaxCaps, Len(caps))) \o emails \o phones \o urls)

EmptyRecord == [k \in {} |-> <<>>]

AnalyzeTypes == {"full", "summary_only", "entities_only", "topics_only"}

\* AnalyzeDocumentExecute, were every field computed whatever the analyzeType
AnalyzeDocumentEveryField(input) ==
    LET fragments == Fragments(input.content)
        words == Words(input.content)
    IN  [analysisData |-> [wordCount |-> Len(words), summary |-> Summary(fragments),
                           entities |-> Entities(input.content),
                           topics |-> Topics(words)]]

\* analyze_document.execute, lines 191-235: nothing in the try block throws
\* on a string, so the catch of line 232 is never entered
AnalyzeDocumentExecute(input) ==
    LET fragments == Fragments(input.content)
        words == Words(input.content)
        type == input.analyzeType
        obj == [wordCount |-> Len(words)]
               @@ (IF type \in {"full", "summary_only"}
                   THEN [summary |-> Summary(fragments)] ELSE EmptyRecord)
               @@ (IF type \in {"full", "entities_only"}
                   THEN [entities |-> Entities(input.content)] ELSE EmptyRecord)
               @@ (IF type \in {"full", "topics_only"}
                   THEN [topics |-> Topics(words)] ELSE EmptyRecord)
    IN  [analysisData |-> obj]

\* the texts analysed: up to MaxPieces pieces, one after the other
MaxPieces == 3

Str_data == <<"d", "a", "t", "a", " ">>
Str_2024 == <<"2", "0", "2", "4", " ">>
Str_Beta == <<"B", "e", "t", "a", ",", " ">>
Str_with == <<"w", "i", "t", "h", " ">>
Str_stop == <<".", " ">>
Str_fox == <<"T", "h", "e", " ", "q", "u", "i", "c", "k", " ", "f", "o", "x", "!", " ">>
Str_dogs == <<"J", "u", "m", "p", "s", " ", "o", "v", "e", "r", " ", "d", "o", "g", "s", "?", " ">>
Str_email == <<"a", "@", "b", ".", "c", "o", " ">>
Str_phone == <<"+", "1", "2", "3", "4", "5", "6", "7", "8", "9", "0", "1", " ">>
Str_url == <<"h", "t", "t", "p", ":", "/", "/", "x", ".", "y", " ">>

Pieces == {Str_data, Str_2024, Str_Beta, Str_with, Str_stop, Str_fox, Str_dogs, Str_email, Str_phone, Str_url}

RECURSIVE Concatenations(_, _)
Concatenations(pieces, n) ==
    IF n = 0 THEN {<<>>}
    ELSE LET shorter == Concatenations(pieces, n - 1) IN
         shorter \cup {t \o piece : t \in shorter, piece \in pieces}

\* texts with one match more than caps.slice(0, 20) keeps: 21 capitalized
\* words, the same with the first word twice, 21 addresses, 21 numbers, 21 links
Str_caps ==
    Join([i \in 1..(MaxCaps + 1) |-> <<"A", LowerCase[i]>>], <<" ">>)
Str_caps_twice ==
    Join([i \in 1..(MaxCaps + 1) |-> <<"A", LowerCase[Max(1, i - 1)]>>], <<" ">>)
Str_emails ==
    Join([i \in 1..(MaxCaps + 1) |-> <<LowerCase[i], "@", "b", ".", "c", "c">>], <<" ">>)
Str_phones ==
    Join([i \in 1..(MaxCaps + 1) |->
             <<"5", "5", "5", "0", "1", "0", "0", "0",
               Digits[(i \div 10) + 1], Digits[(i % 10) + 1]>>], <<" ">>)
Str_urls ==
    Join([i \in 1..(MaxCaps + 1) |-> Http \o SchemeEnd \o <<LowerCase[i]>>], <<" ">>)

LongTexts == {Str_caps, Str_caps_twice, Str_emails, Str_phones, Str_urls}

\* the letter U+00E0, a with grave accent: one character of a text, written
\* by its code point
A_grave == "U+00E0"

\* texts with a letter that \w does not match
Str_a_la == <<A_grave, " ", "l", "a">>
Str_deja == <<"D", "e", "j", A_grave, " ", "v", "u">>
AccentedTexts == {Str_a_la, Str_deja}

AnalyzedTexts == Concatenations(Pieces, MaxPieces) \cup LongTexts \cup AccentedTexts

AnalyzeInit ==
    /\ HttpIdle
    /\ SearchIdle
    /\ tcall \in [tool : {"analyze_document"},
                  input : [content : AnalyzedTexts, analyzeType : AnalyzeTypes]]
    /\ tret = <<>>
    /\ disk = NoFiles
    /\ taccess = <<>>

AnalyzeDocument ==
    /\ tcall.tool = "analyze_document"
    /\ tret = <<>>
    /\ tret' = <<AnalyzeDocumentExecute(tcall.input)>>
    /\ UNCHANGED <<tcall, disk, taccess>>
    /\ UNCHANGED httpVars
    /\ UNCHANGED searchVars

AnalyzeNext == AnalyzeDocument

AnalyzeSpec == AnalyzeInit /\ [][AnalyzeNext]_vars

Analyzed == tcall.tool = "analyze_document" /\ tret # <<>>

\* ---------------------------------------------------------------------
\* C11
\* ---------------------------------------------------------------------

Occurrences(tokens, word) == Cardinality({i \in DOMAIN tokens : tokens[i] = word})

\* the tokens that can be topics, each once, in the order of first occurrence
FirstSeen(tokens) ==
    Unique(SelectSeq(tokens, LAMBDA w : Len(w) > MinTopicLength /\ w \notin stopWords))

\* the place of the i-th of them in the ranking: behind every token that
\* occurs more often and every earlier token that occurs as often
Rank(tokens, i) ==
    LET seen == FirstSeen(tokens)
        n(j) == Occurrences(tokens, seen[j])
    IN  1 + Cardinality({j \in DOMAIN seen : n(j) > n(i) \/ (n(j) = n(i) /\ j < i)})

RankedTopics(tokens) ==
    LET seen == FirstSeen(tokens)
        ranked == [r \in DOMAIN seen |-> seen[CHOOSE i \in DOMAIN seen : Rank(tokens, i) = r]]
    IN  SubSeq(ranked, 1, Min(MaxTopics, Len(ranked)))

\* C11: the topics analyze_document returns are the tokens longer than 3
\* characters that are no stopwords, by descending number of occurrences,
\* tokens of equal count in the order of their first occurrence (tokens
\* made only of digits included), cut to the first 10.
C11_TopicsByCountThenFirstSeen ==
    (Analyzed /\ "topics" \in DOMAIN tret[1].analysisData)
        => tret[1].analysisData.topics = RankedTopics(Words(tcall.input.content))

\* ---------------------------------------------------------------------
\* JSON.parse and JSON.stringify(value, null, 2), as save_analysis
\* (src/utils/agent.ts, 279-280) and extract_text_content (150-151) use
\* them.  A value is [t, v]: t one of "null", "bool", "num", "str", "arr",
\* "obj"; a number is [neg, m, e], standing for (-1)^neg * m * 10^e with m
\* not divisible by 10; an object is the sequence of its [key, value]
\* properties in enumeration order.
\* ---------------------------------------------------------------------

JNull == [t |-> "null", v |-> <<>>]
JBool(b) == [t |-> "bool", v |-> b]
JStr(chars) == [t |-> "str", v |-> chars]
JArr(items) == [t |-> "arr", v |-> items]
JObj(props) == [t |-> "obj", v |-> props]

\* the Number value of m * 10^e
RECURSIVE Normal(_, _, _)
Normal(neg, m, e) ==
    IF m = 0 THEN [neg |-> FALSE, m |-> 0, e |-> 0]
    ELSE IF m % 10 = 0 THEN Normal(neg, m \div 10, e + 1)
    ELSE [neg |-> neg, m |-> m, e |-> e]

JNum(neg, m, e) == [t |-> "num", v |-> Normal(neg, m, e)]

RECURSIVE DigitsOf(_)
DigitsOf(n) ==
    IF n < 10 THEN <<Digits[n + 1]>>
    ELSE Append(DigitsOf(n \div 10), Digits[(n % 10) + 1])

Zeros(n) == [i \in 1..n |-> "0"]

\* Number::toString of a finite number: plain digits while the decimal
\* point lies between 10^-7 and 10^21, exponent notation beyond
NumberToString(num) ==
    LET digits == DigitsOf(num.m)
        k == Len(digits)
        n == k + num.e
        sign == IF num.neg THEN <<"-">> ELSE <<>>
        expo == IF n - 1 < 0 THEN <<"e", "-">> \o DigitsOf(1 - n)
                ELSE <<"e", "+">> \o DigitsOf(n - 1)
    IN  sign \o
        (IF num.m = 0 THEN <<"0">>
         ELSE IF k <= n /\ n <= 21 THEN digits \o Zeros(n - k)
         ELSE IF 0 < n /\ n <= 21
              THEN SubSeq(digits, 1, n) \o <<".">> \o SubSeq(digits, n + 1, k)
         ELSE IF -6 < n /\ n <= 0 THEN <<"0", ".">> \o Zeros(-n) \o digits
         ELSE IF k = 1 THEN digits \o expo
         ELSE <<digits[1], ".">> \o SubSeq(digits, 2, k) \o expo)

\* QuoteJSONString, for the characters of the model
RECURSIVE Escaped(_)
Escaped(chars) ==
    IF chars = <<>> THEN <<>>
    ELSE LET c == Head(chars) IN
         (CASE c = "\"" -> <<"\\", "\"">>
            [] c = "\\" -> <<"\\", "\\">>
            [] c = "\n" -> <<"\\", "n">>
            [] c = "\t" -> <<"\\", "t">>
            [] c = "\r" -> <<"\\", "r">>
            [] OTHER -> <<c>>) \o Escaped(Tail(chars))

\* Quote, were the characters of the string written as they are
QuoteRaw(chars) == <<"\"">> \o chars \o <<"\"">>

Quote(chars) == <<"\"">> \o Escaped(chars) \o <<"\"">>

Gap == <<" ", " ">>

\* SerializeJSONProperty with gap "  ": indent is the indentation in force
RECURSIVE Serialize(_, _)
Serialize(value, indent) ==
    LET inner == indent \o Gap
        item(i) == Serialize(value.v[i], inner)
        prop(i) == Quote(value.v[i].key) \o <<":", " ">> \o Serialize(value.v[i].value, inner)
        lines(F(_)) == Join([i \in DOMAIN value.v |-> inner \o F(i)], <<",", "\n">>)
    IN  CASE value.t = "null" -> <<"n", "u", "l", "l">>
          [] value.t = "bool" -> IF value.v THEN <<"t", "r", "u", "e">>
                                 ELSE <<"f", "a", "l", "s", "e">>
          [] value.t = "num" -> NumberToString(value.v)
          [] value.t = "str" -> Quote(value.v)
          [] value.t = "arr" ->
                IF value.v = <<>> THEN <<"[", "]">>
                ELSE <<"[", "\n">> \o lines(item) \o <<"\n">> \o indent \o <<"]">>
          [] value.t = "obj" ->
                IF value.v = <<>> THEN <<"{", "}">>
                ELSE <<"{", "\n">> \o lines(prop) \o <<"\n">> \o indent \o <<"}">>

\* JSON.stringify(value, null, 2)
JsonStringify(value) == Serialize(value, <<>>)

\* CreateDataProperty(object, key, value): a key parsed twice keeps its
\* place and takes the later value
SetProperty(props, key, value) ==
    IF \E i \in DOMAIN props : props[i].key = key
    THEN [i \in DOMAIN props |->
            IF props[i].key = key THEN [key |-> key, value |-> value] ELSE props[i]]
    ELSE LET at == KeyPlace([i \in DOMAIN props |-> props[i].key], key) IN
         SubSeq(props, 1, at - 1) \o <<[key |-> key, value |-> value]>>
             \o SubSeq(props, at, Len(props))

\* a parse step: whether it succeeded, the value read, the next position
Failed == [ok |-> FALSE, v |-> JNull, i |-> 0]
Parsed(value, i) == [ok |-> TRUE, v |-> value, i |-> i]

JsonWhitespace == {" ", "\n", "\t", "\r"}

SkipWs(text, i) == i + RunLength(text, i, JsonWhitespace)

CharAt(text, i) == IF i >= 1 /\ i <= Len(text) THEN text[i] ELSE ""

RECURSIVE NumberOf(_, _)
NumberOf(digits, acc) ==
    IF digits = <<>> THEN acc
    ELSE NumberOf(Tail(digits), 10 * acc + DigitValue(Head(digits)))

\* a JSON number at i: -? (0 | [1-9][0-9]*) (. [0-9]+)? ([eE] [+-]? [0-9]+)?
ParseNumber(text, i) ==
    LET neg == CharAt(text, i) = "-"
        int == IF neg THEN i + 1 ELSE i
        intLen == IF CharAt(text, int) = "0" THEN 1 ELSE RunLength(text, int, DigitChars)
        dot == int + intLen
        fracLen == IF CharAt(text, dot) = "." THEN RunLength(text, dot + 1, DigitChars) ELSE 0
        exp == IF CharAt(text, dot) = "." THEN dot + 1 + fracLen ELSE dot
        hasExp == CharAt(text, exp) \in {"e", "E"}
        expNeg == CharAt(text, exp + 1) = "-"
        expAt == IF CharAt(text, exp + 1) \in {"+", "-"} THEN exp + 2 ELSE exp + 1
        expLen == IF hasExp THEN RunLength(text, expAt, DigitChars) ELSE 0
        mantissa == NumberOf(SubSeq(text, int, dot - 1) \o SubSeq(text, dot + 1, dot + fracLen), 0)
        power == IF hasExp THEN NumberOf(SubSeq(text, expAt, expAt + expLen - 1), 0) ELSE 0
    IN  IF \/ intLen = 0
           \/ (CharAt(text, dot) = "." /\ fracLen = 0)
           \/ (hasExp /\ expLen = 0)
        THEN Failed
        ELSE Parsed(JNum(neg, mantissa, (IF expNeg THEN -power ELSE power) - fracLen),
                    IF hasExp THEN expAt + expLen ELSE exp)

\* the characters of a JSON string from i on, up to the closing quote
RECURSIVE ParseChars(_, _, _)
ParseChars(text, i, acc) ==
    LET c == CharAt(text, i)
        d == CharAt(text, i + 1)
    IN  IF i > Len(text) \/ c \in {"\n", "\t", "\r"} THEN Failed
        ELSE IF c = "\"" THEN Parsed(JStr(acc), i + 1)
        ELSE IF c # "\\" THEN ParseChars(text, i + 1, Append(acc, c))
        ELSE IF d \in {"\"", "\\", "/"} THEN ParseChars(text, i + 2, Append(acc, d))
        ELSE IF d = "n" THEN ParseChars(text, i + 2, Append(acc, "\n"))
        ELSE IF d = "t" THEN ParseChars(text, i + 2, Append(acc, "\t"))
        ELSE IF d = "r" THEN ParseChars(text, i + 2, Append(acc, "\r"))
        ELSE Failed

ParseLiteral(text, i) ==
    IF StartsWith(text, i, <<"t", "r", "u", "e">>) THEN Parsed(JBool(TRUE), i + 4)
    ELSE IF StartsWith(text, i, <<"f", "a", "l", "s", "e">>) THEN Parsed(JBool(FALSE), i + 5)
    ELSE IF StartsWith(text, i, <<"n", "u", "l", "l">>) THEN Parsed(JNull, i + 4)
    ELSE Failed

RECURSIVE ParseValue(_, _)
RECURSIVE ParseElements(_, _, _)
RECURSIVE ParseMembers(_, _, _)

\* the elements of an array, the first of them at i
ParseElements(text, i, items) ==
    LET el == ParseValue(text, i)
        next == SkipWs(text, el.i)
    IN  IF ~el.ok THEN Failed
        ELSE IF CharAt(text, next) = "," THEN ParseElements(text, next + 1, Append(items, el.v))
        ELSE IF CharAt(text, next) = "]" THEN Parsed(JArr(Append(items, el.v)), next + 1)
        ELSE Failed

\* the members of an object, the first of them at i
ParseMembers(text, i, props) ==
    LET at == SkipWs(text, i)
        key == IF CharAt(text, at) = "\"" THEN ParseChars(text, at + 1, <<>>) ELSE Failed
        colon == SkipWs(text, key.i)
        member == IF key.ok /\ CharAt(text, colon) = ":"
                  THEN ParseValue(text, colon + 1) ELSE Failed
        next == SkipWs(text, member.i)
        set == SetProperty(props, key.v.v, member.v)
    IN  IF ~member.ok THEN Failed
        ELSE IF CharAt(text, next) = "," THEN ParseMembers(text, next + 1, set)
        ELSE IF CharAt(text, next) = "}" THEN Parsed(JObj(set), next + 1)
        ELSE Failed

\* a JSON value at i, after optional whitespace
ParseValue(text, i) ==
    LET at == SkipWs(text, i)
        c == CharAt(text, at)
    IN  IF c = "{"
        THEN IF CharAt(text, SkipWs(text, at + 1)) = "}"
             THEN Parsed(JObj(<<>>), SkipWs(text, at + 1) + 1)
             ELSE ParseMembers(text, at + 1, <<>>)
        ELSE IF c = "["
        THEN IF CharAt(text, SkipWs(text, at + 1)) = "]"
             THEN Parsed(JArr(<<>>), SkipWs(text, at + 1) + 1)
             ELSE ParseElements(text, at + 1, <<>>)
        ELSE IF c = "\"" THEN ParseChars(text, at + 1, <<>>)
        ELSE IF c = "-" \/ c \in DigitChars THEN ParseNumber(text, at)
        ELSE ParseLiteral(text, at)

\* JSON.parse(text): ok is FALSE where it throws a SyntaxError
JsonParse(text) ==
    LET top == ParseValue(text, 1) IN
    IF top.ok /\ SkipWs(text, top.i) = Len(text) + 1 THEN top ELSE Failed

\* ---------------------------------------------------------------------
\* save_analysis (src/utils/agent.ts, 260-286), called on its own
\* ---------------------------------------------------------------------

\* fs.writeFileSync(p, data): throws, or the file at p holds data
WriteFileSync(base, p, data, files) ==
    LET target == Resolve(base, p)
        parent == SubSeq(target, 1, Len(target) - 1)
        err == IF p = EmptyPath \/ p = BlankPath THEN "ENOENT: no such file or directory"
               ELSE IF target \in Dirs THEN "EISDIR: illegal operation on a directory"
               ELSE IF parent \in DOMAIN files THEN "ENOTDIR: not a directory"
               ELSE IF parent \notin Dirs THEN "ENOENT: no such file or directory"
               ELSE ""
    IN  [threw |-> err # "", error |-> err,
         files |-> IF err = "" THEN [f \in DOMAIN files \cup {target} |->
                                        IF f = target THEN data ELSE files[f]]
                   ELSE files,
         access |-> [op |-> "writeFile", path |-> target]]

\* an instant of the clock, in UTC
Instants ==
    {[year |-> 1970, month |-> 1, day |-> 1, hours |-> 0, minutes |-> 0,
      seconds |-> 0, ms |-> 0],
     [year |-> 2026, month |-> 11, day |-> 2, hours |-> 4, minutes |-> 7,
      seconds |-> 21, ms |-> 3]}

\* n in decimal, padded with zeros to the width
Pad(n, width) == Zeros(width - Len(DigitsOf(n))) \o DigitsOf(n)

\* Date.prototype.toISOString, for the years 0 to 9999
ToISOString(now) ==
    Pad(now.year, 4) \o <<"-">> \o Pad(now.month, 2) \o <<"-">> \o Pad(now.day, 2)
        \o <<"T">> \o Pad(now.hours, 2) \o <<":">> \o Pad(now.minutes, 2)
        \o <<":">> \o Pad(now.seconds, 2) \o <<".">> \o Pad(now.ms, 3) \o <<"Z">>

JStrs(array) == JArr([i \in DOMAIN array |-> JStr(array[i])])

Property(cond, name, value) ==
    IF cond THEN <<[key |-> Chars(name), value |-> value]>> ELSE <<>>

Given(analysisData, name) == name \in DOMAIN analysisData

\* { ...analysisData, generatedAt: new Date().toISOString() }, line 279
Payload(analysisData, now) ==
    JObj(Property(TRUE, "filename", JStr(analysisData.filename))
         \o Property(TRUE, "summary", JStr(analysisData.summary))
         \o Property(Given(analysisData, "keyPoints"), "keyPoints",
                     IF Given(analysisData, "keyPoints")
                     THEN JStrs(analysisData.keyPoints) ELSE JNull)
         \o Property(Given(analysisData, "entities"), "entities",
                     IF Given(analysisData, "entities")
                     THEN JStrs(analysisData.entities) ELSE JNull)
         \o Property(Given(analysisData, "topics"), "topics",
                     IF Given(analysisData, "topics")
                     THEN JStrs(analysisData.topics) ELSE JNull)
         \o Property(TRUE, "wordCount", [t |-> "num", v |-> analysisData.wordCount])
         \o Property(TRUE, "sourceFile", JStr(analysisData.sourceFile))
         \o Property(TRUE, "generatedAt", JStr(ToISOString(now))))

\* SaveAnalysisExecute, were the failure of the write not reported
SaveAnalysisReportsSuccess(base, input, now, files) ==
    LET payload == Payload(input.analysisData, now)
        o == WriteFileSync(base, input.outputPath, JsonStringify(payload), files)
    IN  [value |-> [success |-> TRUE, savedPath |-> input.outputPath],
         files |-> o.files, accesses |-> <<o.access>>]

\* save_analysis.execute, lines 277-285
SaveAnalysisExecute(base, input, now, files) ==
    LET payload == Payload(input.analysisData, now)
        o == WriteFileSync(base, input.outputPath, JsonStringify(payload), files)
    IN  IF o.threw
        THEN [value |-> [error |-> o.error], files |-> o.files,
              accesses |-> <<o.access>>]
        ELSE [value |-> [success |-> TRUE, savedPath |-> input.outputPath],
              files |-> o.files, accesses |-> <<o.access>>]

Str_old == <<"o", "l", "d">>
Str_a_txt == <<"a", ".", "t", "x", "t">>
Str_docs_a == <<"d", "o", "c", "s", "/", "a", ".", "t", "x", "t">>
Str_Hi == <<"H", "i", ".">>
Str_quoted == <<"H", "e", " ", "s", "a", "i", "d", " ", "\"", "n", "o", "\"", "\\", "\n">>
Str_Bob == <<"B", "o", "b">>

\* the files of the process before the tool runs
InitialDisk == [f \in Files |-> Str_old]

Summaries == {<<>>, Str_Hi, Str_quoted}
StringLists == {<<>>, <<Str_Bob>>, <<Str_data, Str_quoted>>}
WordCounts == {Normal(FALSE, 0, 0), Normal(FALSE, 42, 0), Normal(FALSE, 15, -1),
               Normal(FALSE, 1200, 0)}

\* an optional field: left out, or one of the values
Optional(name, values) == {EmptyRecord} \cup {name :> v : v \in values}

AnalysisDatas ==
    {[filename |-> Str_a_txt, summary |-> s, wordCount |-> n, sourceFile |-> Str_docs_a]
         @@ k @@ e @@ t :
       s \in Summaries, n \in WordCounts,
       k \in Optional("keyPoints", StringLists),
       e \in Optional("entities", {<<Str_Bob>>}),
       t \in Optional("topics", {<<Str_data>>})}

\* a new file, a file that exists, a directory, a missing directory, ""
OutputPaths ==
    {Rel(<<"out.json">>), Rel(<<"docs", "report.txt">>), Abs(<<"app", "docs">>),
     Rel(<<"missing", "out.json">>), EmptyPath}

SaveInit ==
    /\ HttpIdle
    /\ SearchIdle
    /\ tcall \in [tool : {"save_analysis"},
                  input : [analysisData : AnalysisDatas, outputPath : OutputPaths]]
    /\ tret = <<>>
    /\ disk = InitialDisk
    /\ taccess = <<>>

SaveAnalysis(now) ==
    /\ tcall.tool = "save_analysis"
    /\ tret = <<>>
    /\ \E o \in {SaveAnalysisExecute(cwd, tcall.input, now, disk)} :
          /\ tret' = <<o.value>>
          /\ disk' = o.files
          /\ taccess' = o.accesses
    /\ UNCHANGED tcall
    /\ UNCHANGED httpVars
    /\ UNCHANGED searchVars

SaveNext == \E now \in Instants : SaveAnalysis(now)

SaveSpec == SaveInit /\ [][SaveNext]_vars

\* ---------------------------------------------------------------------
\* C12
\* ---------------------------------------------------------------------

Saved == tcall.tool = "save_analysis" /\ tret # <<>>

\* the write of the call meets no error of the filesystem
Writable == ~WriteFileSync(cwd, tcall.input.outputPath, <<>>, InitialDisk).threw

\* the value of the property of a parsed object, <<>> when it has none
Prop(object, name) ==
    LET at == {i \in DOMAIN object.v : object.v[i].key = Chars(name)} IN
    IF at = {} THEN <<>> ELSE <<object.v[CHOOSE i \in at : TRUE].value>>

\* YYYY-MM-DDTHH:mm:ss.sssZ, with a month, day and time of day that exist
IsIsoTimestamp(chars) ==
    /\ Len(chars) = 24
    /\ \A i \in {5, 8} : chars[i] = "-"
    /\ chars[11] = "T"
    /\ \A i \in {14, 17} : chars[i] = ":"
    /\ chars[20] = "."
    /\ chars[24] = "Z"
    /\ \A i \in (1..23) \ {5, 8, 11, 14, 17, 20} : chars[i] \in DigitChars
    /\ NumberOf(SubSeq(chars, 6, 7), 0) \in 1..12
    /\ NumberOf(SubSeq(chars, 9, 10), 0) \in 1..31
    /\ NumberOf(SubSeq(chars, 12, 13), 0) \in 0..23
    /\ NumberOf(SubSeq(chars, 15, 16), 0) \in 0..59
    /\ NumberOf(SubSeq(chars, 18, 19), 0) \in 0..59

RoundTrips(analysisData, file) ==
    /\ file.ok
    /\ file.v.t = "obj"
    /\ Prop(file.v, "filename") = <<JStr(analysisData.filename)>>
    /\ Prop(file.v, "summary") = <<JStr(analysisData.summary)>>
    /\ Prop(file.v, "wordCount") = <<[t |-> "num", v |-> analysisData.wordCount]>>
    /\ Prop(file.v, "sourceFile") = <<JStr(analysisData.sourceFile)>>
    /\ \A name \in {"keyPoints", "entities", "topics"} :
          Given(analysisData, name) => Prop(file.v, name) = <<JStrs(analysisData[name])>>
    /\ Prop(file.v, "generatedAt") # <<>>
    /\ Prop(file.v, "generatedAt")[1].t = "str"
    /\ IsIsoTimestamp(Prop(file.v, "generatedAt")[1].v)

\* C12: after save_analysis, where the write meets no filesystem error, the
\* file at outputPath parses to an object whose filename, summary,
\* wordCount and sourceFile (and keyPoints, entities, topics when given)
\* equal the values passed in, with a generatedAt that is an ISO-8601
\* timestamp; the tool returns success true and savedPath = outputPath.
C12_SaveRoundTrip ==
    (Saved /\ Writable)
        => /\ tret[1] = [success |-> TRUE, savedPath |-> tcall.input.outputPath]
           /\ Resolve(cwd, tcall.input.outputPath) \in DOMAIN disk
           /\ RoundTrips(tcall.input.analysisData,
                         JsonParse(disk[Resolve(cwd, tcall.input.outputPath)]))

C12_Witness ==
    /\ Saved
    /\ Writable
    /\ tcall.input.analysisData.summary = Str_quoted
    /\ \A name \in {"keyPoints", "entities", "topics"} : Given(tcall.input.analysisData, name)
    /\ tcall.input.analysisData.keyPoints = <<Str_data, Str_quoted>>
    /\ tcall.input.analysisData.wordCount = Normal(FALSE, 15, -1)
    /\ "success" \in DOMAIN tret[1]

\* ---------------------------------------------------------------------
\* extract_text_content (src/utils/agent.ts, 118-182), called on its own
\* ---------------------------------------------------------------------

\* the prefix at i, compared without regard to case (flag i)
StartsWithIgnoringCase(text, i, prefix) ==
    /\ i + Len(prefix) - 1 <= Len(text)
    /\ Lowered(SubSeq(text, i, i + Len(prefix) - 1)) = prefix

ScriptOpen == <<"<", "s", "c", "r", "i", "p", "t">>
ScriptClose == <<"<", "/", "s", "c", "r", "i", "p", "t", ">">>

\* ScriptAt, were the expression matched with regard to case
ScriptAtCaseSensitive(text, i) ==
    LET closes == {j \in (i + Len(ScriptOpen))..Len(text) : StartsWith(text, j, ScriptClose)}
    IN  IF /\ StartsWith(text, i, ScriptOpen)
           /\ WordBoundary(text, i + Len(ScriptOpen))
           /\ closes # {}
        THEN (CHOOSE j \in closes : \A k \in closes : j <= k) + Len(ScriptClose) - i
        ELSE 0

\* /<script\b[^<]*(?:(?!<\/script>)<[^<]*)*<\/script>/si at i: the length
\* of the match, 0 when there is none. [^<]* runs to the next "<", the
\* group steps over every "<" that does not open "</script>", so the match
\* ends with the first "</script>" behind the opening.
ScriptAt(text, i) ==
    LET closes == {j \in (i + Len(ScriptOpen))..Len(text) :
                      StartsWithIgnoringCase(text, j, ScriptClose)}
    IN  IF /\ StartsWithIgnoringCase(text, i, ScriptOpen)
           /\ WordBoundary(text, i + Len(ScriptOpen))
           /\ closes # {}
        THEN (CHOOSE j \in closes : \A k \in closes : j <= k) + Len(ScriptClose) - i
        ELSE 0

\* /<[^>]*>/ at i: up to the first ">"
TagAt(text, i) ==
    LET ends == {j \in (i + 1)..Len(text) : text[j] = ">"} IN
    IF text[i] = "<" /\ ends # {}
    THEN (CHOOSE j \in ends : \A k \in ends : j <= k) - i + 1
    ELSE 0

\* /\s+/ at i
SpaceAt(text, i) == RunLength(text, i, Whitespace)

ReplaceLengthAt(kind, text, i) ==
    CASE kind = "script" -> ScriptAt(text, i)
      [] kind = "tag" -> TagAt(text, i)
      [] kind = "space" -> SpaceAt(text, i)

\* text.replace(/.../g, by): every match from left to right, each search
\* resuming behind the previous match
RECURSIVE ReplaceAll(_, _, _, _)
ReplaceAll(kind, text, i, by) ==
    IF i > Len(text) THEN <<>>
    ELSE LET n == ReplaceLengthAt(kind, text, i) IN
         IF n > 0 THEN by \o ReplaceAll(kind, text, i + n, by)
         ELSE <<text[i]>> \o ReplaceAll(kind, text, i + 1, by)

\* lines 162-166
HtmlText(raw) ==
    Trim(ReplaceAll("space",
                    ReplaceAll("tag", ReplaceAll("script", raw, 1, <<>>), 1, <<" ">>),
                    1, <<" ">>))

\* JsonText, were the raw text returned whether it parses or not
JsonTextRaw(raw) == raw

\* lines 150-152: the parse throws and the raw text is kept, or the value
\* is written again with an indentation of 2
JsonText(raw) ==
    LET parsed == JsonParse(raw) IN
    IF parsed.ok THEN JsonStringify(parsed.v) ELSE raw

\* path.extname of a name: the part from its last dot on; nothing for a
\* name without a dot, a name whose only dot comes first, and ".."
Extension(name) ==
    LET dots == {i \in DOMAIN name : name[i] = "."} IN
    IF dots = {} THEN <<>>
    ELSE LET last == CHOOSE i \in dots : \A j \in dots : j <= i IN
         IF last = 1 \/ name = <<".", ".">> THEN <<>>
         ELSE SubSeq(name, last, Len(name))

\* path.extname(filePath): the extension of the last name of the path
ExtName(p) ==
    Extension(Chars(IF p.parts = <<>> THEN "" ELSE p.parts[Len(p.parts)]))

\* fs.readFileSync(p, "utf-8") on the files of the process
ReadFile(base, p, files) ==
    LET target == Resolve(base, p)
        err == IF p = EmptyPath \/ p = BlankPath THEN "ENOENT: no such file or directory"
               ELSE IF target \in DOMAIN files THEN ""
               ELSE IF target \in Dirs THEN "EISDIR: illegal operation on a directory"
               ELSE "ENOENT: no such file or directory"
    IN  [threw |-> err # "", error |-> err,
         output |-> IF err = "" THEN files[target] ELSE <<>>,
         access |-> [op |-> "readFile", path |-> target]]

\* what pdfParse.pdf(dataBuffer) does with the bytes: a text, or an error
PdfOutcomes ==
    {[threw |-> FALSE, error |-> "", text |-> Str_Hi],
     [threw |-> TRUE, error |-> "Invalid PDF structure", text |-> <<>>]}

\* raw.split(/\r?\n/) from position i on: the piece up to the next line
\* feed, without the carriage return that stands before it, and the pieces
\* behind that line feed
RECURSIVE SplitLines(_, _)
SplitLines(raw, i) ==
    LET found == {j \in i..Len(raw) : raw[j] = "\n"} IN
    IF found = {} THEN <<SubSeq(raw, i, Len(raw))>>
    ELSE LET at == CHOOSE j \in found : \A k \in found : j <= k
             stop == IF at > i /\ raw[at - 1] = "\r" THEN at - 2 ELSE at - 1
         IN  <<SubSeq(raw, i, stop)>> \o SplitLines(raw, at + 1)

\* CsvRows, were the empty lines not counted
CsvRowsNotEmpty(raw) == Len(FilterBoolean(SplitLines(raw, 1)))

\* lines.length, line 157
CsvRows(raw) == Len(SplitLines(raw, 1))

CsvHeader == <<"C", "S", "V", " ", "r", "o", "w", "s", ":", " ">>

\* text.split(/\s+/).filter(Boolean).length, line 175
WordCount(text) == Len(FilterBoolean(SplitRuns(text, Whitespace)))

\* lines 145-169: the text of a file that is not a PDF
TextOf(ext, raw) ==
    IF ext = Chars(".json") THEN JsonText(raw)
    ELSE IF ext = Chars(".csv")
         THEN CsvHeader \o DigitsOf(CsvRows(raw)) \o <<"\n", "\n">> \o raw
    ELSE IF ext \in {Chars(".html"), Chars(".htm")} THEN HtmlText(raw)
    ELSE raw

Extracted(filePath, text, metadata, accesses) ==
    [threw |-> FALSE,
     value |-> [filePath |-> filePath, extractedText |-> text,
                wordCount |-> WordCount(text), metadata |-> metadata],
     accesses |-> accesses]

ExtractError(filePath, message, accesses) ==
    [threw |-> FALSE, value |-> [error |-> message, filePath |-> filePath],
     accesses |-> accesses]

\* extract_text_content.execute, lines 123-181; pdf is what the PDF parser
\* does should it be called
ExtractTextContentExecute(base, input, files, pdf) ==
    LET filePath == input.filePath
        ext == Lowered(ExtName(filePath))
        read == ReadFile(base, filePath, files)
    IN  IF filePath = DotGit \/ filePath = NodeModules
        THEN ExtractError(filePath, <<"Cannot read protected path">>, <<>>)
        ELSE IF ext = Chars(".pdf")
        THEN IF read.threw
             THEN ExtractError(filePath, <<"PDF parse error: ", read.error>>, <<read.access>>)
             ELSE IF pdf.threw
             THEN ExtractError(filePath, <<"PDF parse error: ", pdf.error>>, <<read.access>>)
             ELSE Extracted(filePath, pdf.text, [isPdf |-> TRUE], <<read.access>>)
        ELSE IF read.threw
        THEN ExtractError(filePath, <<read.error>>, <<read.access>>)
        ELSE Extracted(filePath, TextOf(ext, read.output), EmptyRecord, <<read.access>>)

Html_script == <<"<", "s", "c", "r", "i", "p", "t", ">", "x", "<", "/", "s", "c", "r", "i", "p", "t", ">">>
Html_SCRIPT == <<"<", "S", "C", "R", "I", "P", "T", " ", "a", ">", "x", "<", "y", "<", "/", "S", "c", "r", "i", "p", "t", ">">>
Html_open == <<"<", "s", "c", "r", "i", "p", "t", ">">>
Html_close == <<"<", "/", "s", "c", "r", "i", "p", "t", ">">>
Html_p == <<"<", "p", ">">>
Html_Hi == <<"H", "i", " ">>
Html_b == <<"<", "b", ">", "t", "h", "e", "r", "e", "<", "/", "b", ">">>
Html_space == <<" ", "\n">>
Html_lt == <<"<">>
Html_gt == <<">">>
Html_example == <<"<", "s", "c", "r", "i", "p", "t", ">", "e", "v", "i", "l", "(", ")", "<", "/", "s", "c", "r", "i", "p", "t", ">", "<", "p", ">", "H", "i", " ", "<", "b", ">", "t", "h", "e", "r", "e", "<", "/", "b", ">", "<", "/", "p", ">">>

HtmlPieces == {Html_script, Html_SCRIPT, Html_open, Html_close, Html_p, Html_Hi, Html_b, Html_space, Html_lt, Html_gt}
HtmlTexts == Concatenations(HtmlPieces, MaxPieces) \cup {Html_example}

Json_open == <<"[">>
Json_close == <<"]">>
Json_end == <<"}">>
Json_a == <<"{", "\"", "a", "\"", ":", "1">>
Json_b == <<",", "\"", "b", "\"", ":", "[", "1", ".", "0", ",", "2", "]">>
Json_b1 == <<"{", "\"", "b", "\"", ":", "1", ",", "\"", "1", "\"", ":", "2">>
Json_150 == <<"1", ".", "5", "0">>
Json_str == <<"\"", "x", "\\", "n", "\"">>
Json_space == <<" ", "\n">>
Json_doc_a == <<"{", "\"", "a", "\"", ":", "1", "}">>
Json_doc_nested == <<"{", "\"", "a", "\"", ":", "{", "\"", "b", "\"", ":", "[", "t", "r", "u", "e", ",", "n", "u", "l", "l", "]", "}", ",", "\"", "a", "\"", ":", "-", "0", "}">>
Json_doc_array == <<"[", "1", "e", "2", ",", "\"", "a", "\\", "\"", "b", "\"", "]">>
Json_doc_bad == <<"{", "a", ":", "1", "}">>

JsonPieces == {Json_open, Json_close, Json_end, Json_a, Json_b, Json_b1, Json_150, Json_str, Json_space}
JsonTexts == Concatenations(JsonPieces, MaxPieces)
                 \cup {Json_doc_a, Json_doc_nested, Json_doc_array, Json_doc_bad}

Csv_rows == <<"a", ",", "b", "\n", "1", ",", "2", "\r", "\n">>
Csv_cells == <<"a", ",", "b">>
Csv_words == <<"1", " ", "2">>
Csv_lf == <<"\n">>
Csv_crlf == <<"\r", "\n">>
Csv_cr == <<"\r">>
Csv_space == <<" ">>
\* eleven line feeds: a count of two digits
Csv_twelve == Join([i \in 1..12 |-> <<Digits[(i % 10) + 1]>>], <<"\n">>)

CsvPieces == {Csv_cells, Csv_words, Csv_lf, Csv_crlf, Csv_cr, Csv_space}
CsvTexts == Concatenations(CsvPieces, MaxPieces) \cup {Csv_twelve}
Pdf_bytes == <<"%", "P", "D", "F">>

\* a document: the name of the file and what it holds
Documents ==
    [name : {"doc.html", "DOC.HTM"}, raw : HtmlTexts]
        \cup [name : {"doc.json"}, raw : JsonTexts]
        \cup [name : {"doc.csv", "doc.txt"}, raw : {Csv_rows, Json_doc_a, Html_example}]
        \cup [name : {"doc.csv"}, raw : CsvTexts]
        \cup [name : {"doc.pdf"}, raw : {Pdf_bytes}]

\* paths that name no document: protected names, a directory, no file
OtherPaths == {DotGit, NodeModules, Rel(<<"docs">>), Rel(<<"missing.pdf">>),
               Rel(<<"missing.json">>), EmptyPath}

ExtractInit ==
    /\ HttpIdle
    /\ SearchIdle
    /\ \E d \in Documents :
          /\ disk = [f \in Files \cup {<<"app", d.name>>} |->
                        IF f = <<"app", d.name>> THEN d.raw ELSE Str_old]
          /\ tcall \in [tool : {"extract_text_content"},
                        input : [filePath : {Rel(<<d.name>>)}
                                     \cup IF d.raw = Pdf_bytes THEN OtherPaths ELSE {}]]
    /\ tret = <<>>
    /\ taccess = <<>>

ExtractTextContent(pdf) ==
    /\ tcall.tool = "extract_text_content"
    /\ tret = <<>>
    /\ \E o \in {ExtractTextContentExecute(cwd, tcall.input, disk, pdf)} :
          /\ tret' = <<o.value>>
          /\ taccess' = o.accesses
    /\ UNCHANGED <<tcall, disk>>
    /\ UNCHANGED httpVars
    /\ UNCHANGED searchVars

ExtractNext == \E pdf \in PdfOutcomes : ExtractTextContent(pdf)

ExtractSpec == ExtractInit /\ [][ExtractNext]_vars

\* the call has returned a text for the document of that name
ExtractedFrom(names) ==
    /\ tcall.tool = "extract_text_content"
    /\ tret # <<>>
    /\ tcall.input.filePath \in {Rel(<<n>>) : n \in names}

\* ---------------------------------------------------------------------
\* C13
\* ---------------------------------------------------------------------

HtmlNames == {"doc.html", "DOC.HTM"}

\* what the file named in the call holds
RawOfCall == disk[Resolve(cwd, tcall.input.filePath)]

Str_Hi_there == <<"H", "i", " ", "t", "h", "e", "r", "e">>

\* the characters that stand in the documents inside script blocks only
ScriptBodyChars == {"x", "y"}

HasTag(text) == \E i, j \in DOMAIN text : i < j /\ text[i] = "<" /\ text[j] = ">"

\* C13: the text extracted from a .html or .htm file holds no tag, nothing
\* of a script body, no whitespace at either end and no two whitespace
\* characters in a row; from <script>evil()</script><p>Hi <b>there</b></p>
\* it is exactly "Hi there".
C13_HtmlStripped ==
    ExtractedFrom(HtmlNames)
        => /\ "extractedText" \in DOMAIN tret[1]
           /\ LET text == tret[1].extractedText IN
              /\ ~HasTag(text)
              /\ \A i \in DOMAIN text : text[i] \notin ScriptBodyChars
              /\ text # <<>> => (text[1] \notin Whitespace /\ text[Len(text)] \notin Whitespace)
              /\ \A i \in 1..(Len(text) - 1) :
                    ~(text[i] \in Whitespace /\ text[i + 1] \in Whitespace)
              /\ RawOfCall = Html_example => text = Str_Hi_there

C13_Witness ==
    /\ ExtractedFrom(HtmlNames)
    /\ RawOfCall = Html_SCRIPT \o Html_Hi \o Html_b
    /\ tret[1].extractedText = Str_Hi_there

\* ---------------------------------------------------------------------
\* C14
\* ---------------------------------------------------------------------

Str_a_1_indented == <<"{", "\n", " ", " ", "\"", "a", "\"", ":", " ", "1", "\n", "}">>

\* C14: from a .json file the tool returns the parsed value written again
\* with an indentation of 2 when the content parses, and the raw content,
\* without an error, when it does not; the transformation applied to its
\* own output returns that output.
C14_JsonReserialized ==
    ExtractedFrom({"doc.json"})
        => /\ "extractedText" \in DOMAIN tret[1]
           /\ "error" \notin DOMAIN tret[1]
           /\ LET text == tret[1].extractedText
                  parsed == JsonParse(RawOfCall)
              IN  /\ parsed.ok => text = JsonStringify(parsed.v)
                  /\ ~parsed.ok => text = RawOfCall
                  /\ RawOfCall = Json_doc_a => text = Str_a_1_indented
                  /\ TextOf(Chars(".json"), text) = text

\* a content that parses and is not written back as it was
C14_Witness ==
    /\ ExtractedFrom({"doc.json"})
    /\ RawOfCall = Json_b1 \o Json_b \o Json_end
    /\ JsonParse(RawOfCall).ok
    /\ tret[1].extractedText # RawOfCall

\* ---------------------------------------------------------------------
\* C15
\* ---------------------------------------------------------------------

LastChdir == lastExec # NoExec /\ lastExec.tool = "change_directory"

\* C15: change_directory never throws; where the operating system accepts
\* the path, the working directory of the process is that path and the
\* result has success true and that directory as currentDirectory; where
\* it raises an error, the result has success false and the message of
\* the error, and the working directory is the one before the call.
C15_ChangeDirectoryFrame ==
    LastChdir
        => LET given == lastExec.input.path[1]
               err == FsError(lastExec.base, given, "dir")
           IN  /\ ~lastExec.threw
               /\ err = "" =>
                     /\ cwd = Resolve(lastExec.base, given)
                     /\ lastExec.value.success = TRUE
                     /\ lastExec.value.currentDirectory = cwd
               /\ err # "" =>
                     /\ lastExec.value.success = FALSE
                     /\ lastExec.value.error = err
                     /\ cwd = lastExec.base

\* a change that fails after one that succeeded: the directory stays
C15_Witness ==
    /\ LastChdir
    /\ lastExec.value.success = FALSE
    /\ lastExec.input.path[1] = Rel(<<"missing">>)
    /\ lastExec.base = <<"app", "docs">>
    /\ cwd = <<"app", "docs">>

\* ---------------------------------------------------------------------
\* C16
\* ---------------------------------------------------------------------

\* C16: search_document ends with a result for every content and every
\* query: the loop takes no more turns than the content has positions to
\* match at, and the execution never ends without a value.
C16_SearchTerminates ==
    /\ Len(matches) <= Len(content) + 1
    /\ sd # "aborted"

\* ---------------------------------------------------------------------
\* C17
\* ---------------------------------------------------------------------

\* the window of the k-th match: contextLength characters on each side of
\* the match, cut at the bounds of the content
WindowOf(k) ==
    Slice(content,
          Max(0, matches[k].position - contextLength),
          Min(Len(content), matches[k].position + Len(query) + contextLength))

\* C17 as stated, for the calls the schema accepts that returned: the text
\* of every match is exactly its window.
C17_Original ==
    (sd = "returned" /\ query # <<>> /\ SchemaValid(contextLength))
        => \A k \in DOMAIN sdResult[1].matches :
              sdResult[1].matches[k].text = WindowOf(k)

\* C17: the text of every match is its window, contextLength characters on
\* each side of the match cut at the bounds of the content, without the
\* whitespace at the two ends of the window.
C17_WindowTrimmed ==
    \A k \in DOMAIN matches : matches[k].text = Trim(WindowOf(k))

\* a returned match whose window ends with whitespace
C17_Witness ==
    /\ sd = "returned"
    /\ query # <<>>
    /\ SchemaValid(contextLength)
    /\ \E k \in DOMAIN sdResult[1].matches :
          /\ WindowOf(k) # <<>>
          /\ WindowOf(k)[Len(WindowOf(k))] \in Whitespace
          /\ sdResult[1].matches[k].text # WindowOf(k)

\* ---------------------------------------------------------------------
\* C18
\* ---------------------------------------------------------------------

EqualIgnoringCase(s, t) == Lowered(s) = Lowered(t)

\* the offsets of the occurrences of q in text from offset i on, taken from
\* left to right without overlap
RECURSIVE OccurrencesFrom(_, _, _)
OccurrencesFrom(text, q, i) ==
    IF i + Len(q) > Len(text) THEN <<>>
    ELSE IF EqualIgnoringCase(SubSeq(text, i + 1, i + Len(q)), q)
         THEN <<i>> \o OccurrencesFrom(text, q, i + Len(q))
         ELSE OccurrencesFrom(text, q, i + 1)

\* C18: for a query that is not empty, the positions search_document
\* returns are the offsets of the occurrences of the query in the content,
\* read as literal text without regard to case, from left to right without
\* overlap, and totalMatches is their number.
C18_LiteralOccurrences ==
    (sd = "returned" /\ query # <<>>)
        => /\ [k \in DOMAIN sdResult[1].matches |-> sdResult[1].matches[k].position]
                 = OccurrencesFrom(content, query, 0)
           /\ sdResult[1].totalMatches = Len(sdResult[1].matches)

\* the query ".a" found once in "A.A", as text and in either case
C18_Witness ==
    /\ sd = "returned"
    /\ query = <<".", "a">>
    /\ content = <<"A", ".", "A">>
    /\ sdResult[1].totalMatches = 1
    /\ sdResult[1].matches[1].position = 1

\* ---------------------------------------------------------------------
\* C19
\* ---------------------------------------------------------------------

\* where the pieces between the runs of . ! ? start, and where each ends
PieceStarts(text) ==
    {a \in DOMAIN text :
        text[a] \notin SentenceEnds /\ (a = 1 \/ text[a - 1] \in SentenceEnds)}

PieceFrom(text, a) ==
    SubSeq(text, a,
           CHOOSE b \in a..Len(text) :
               /\ \A k \in a..b : text[k] \notin SentenceEnds
               /\ (b = Len(text) \/ text[b + 1] \in SentenceEnds))

\* the starts of the pieces of more than 10 characters once trimmed
LongPieces(text) ==
    {a \in PieceStarts(text) : Len(Trim(PieceFrom(text, a))) > 10}

\* the i-th of them, counted from 0, trimmed
LongPiece(text, i) ==
    Trim(PieceFrom(text, CHOOSE a \in LongPieces(text) :
                             Cardinality({b \in LongPieces(text) : b < a}) = i))

FirstMiddleLast(text) ==
    LET n == Cardinality(LongPieces(text)) IN
    IF n = 0 THEN <<".">>
    ELSE LongPiece(text, 0) \o <<".", " ">> \o LongPiece(text, n \div 2)
             \o <<".", " ">> \o LongPiece(text, n - 1) \o <<".">>

\* C19: in the modes full and summary_only the summary is made of the
\* trimmed fragments (the pieces between runs of . ! ? of more than 10
\* characters once trimmed) at the indices 0, floor(n/2) and n-1 of the n
\* fragments, in that order, joined with ". " and closed by one period.
C19_SummaryFirstMiddleLast ==
    (Analyzed /\ tcall.input.analyzeType \in {"full", "summary_only"})
        => /\ "summary" \in DOMAIN tret[1].analysisData
           /\ tret[1].analysisData.summary = FirstMiddleLast(tcall.input.content)

Str_fox_dogs_fox == <<"T", "h", "e", " ", "q", "u", "i", "c", "k", " ", "f", "o", "x", ".", " ", "J", "u", "m", "p", "s", " ", "o", "v", "e", "r", " ", "d", "o", "g", "s", ".", " ", "T", "h", "e", " ", "q", "u", "i", "c", "k", " ", "f", "o", "x", ".">>

\* three fragments, the middle one unlike the two others
C19_Witness ==
    /\ Analyzed
    /\ tcall.input.analyzeType = "summary_only"
    /\ tcall.input.content = Str_fox \o Str_dogs \o Str_fox
    /\ Len(Fragments(tcall.input.content)) = 3
    /\ tret[1].analysisData.summary = Str_fox_dogs_fox

\* ---------------------------------------------------------------------
\* C20
\* ---------------------------------------------------------------------

\* the number of whitespace-separated words of the text once the
\* characters that are no letter, digit, underscore or whitespace are gone
TokenCount(text) ==
    LET kept == SelectChars(text, WordChars \cup Whitespace) IN
    Cardinality({i \in DOMAIN kept :
                    kept[i] \notin Whitespace /\ (i = 1 \/ kept[i - 1] \in Whitespace)})

NoLongFragment == LongPieces(tcall.input.content) = {}

ReturnsAnalysisData ==
    /\ DOMAIN tret[1] = {"analysisData"}
    /\ "wordCount" \in DOMAIN tret[1].analysisData

\* C20 as stated: analyze_document returns analysisData and no error; for
\* a content without a fragment of more than 10 characters wordCount is the
\* number of tokens, the summary is "." and entities and topics are empty.
C20_Original ==
    Analyzed
        => /\ ReturnsAnalysisData
           /\ NoLongFragment =>
                 LET data == tret[1].analysisData IN
                 /\ data.wordCount = TokenCount(tcall.input.content)
                 /\ "summary" \in DOMAIN data => data.summary = <<".">>
                 /\ "entities" \in DOMAIN data => data.entities = <<>>
                 /\ "topics" \in DOMAIN data => data.topics = <<>>

\* C20: analyze_document returns analysisData and no error for every
\* content and mode; for a content without a fragment of more than 10
\* characters wordCount is the number of tokens and the summary is ".";
\* for the empty content wordCount is 0 and entities and topics are empty.
C20_NoErrorAndShortContent ==
    Analyzed
        => LET data == tret[1].analysisData IN
           /\ ReturnsAnalysisData
           /\ NoLongFragment =>
                 /\ data.wordCount = TokenCount(tcall.input.content)
                 /\ "summary" \in DOMAIN data => data.summary = <<".">>
           /\ tcall.input.content = <<>> =>
                 /\ data.wordCount = 0
                 /\ "entities" \in DOMAIN data => data.entities = <<>>
                 /\ "topics" \in DOMAIN data => data.topics = <<>>

\* a content without a long fragment that has a topic and an entity
C20_Witness ==
    /\ Analyzed
    /\ tcall.input.analyzeType = "full"
    /\ tcall.input.content = Str_data \o Str_Beta \o Str_stop
    /\ NoLongFragment
    /\ tret[1].analysisData.summary = <<".">>
    /\ tret[1].analysisData.wordCount = 2
    /\ tret[1].analysisData.entities = <<<<"B", "e", "t", "a">>>>
    /\ tret[1].analysisData.topics = <<<<"d", "a", "t", "a">>, <<"b", "e", "t", "a">>>>

\* ---------------------------------------------------------------------
\* C21
\* ---------------------------------------------------------------------

\* the fields the call is to have, by its analyzeType
FieldsOf(type) ==
    {"wordCount"}
        \cup (IF type \in {"full", "summary_only"} THEN {"summary"} ELSE {})
        \cup (IF type \in {"full", "entities_only"} THEN {"entities"} ELSE {})
        \cup (IF type \in {"full", "topics_only"} THEN {"topics"} ELSE {})

\* C21: the result of analyze_document has the field summary exactly for
\* the types full and summary_only, entities exactly for full and
\* entities_only, topics exactly for full and topics_only, and wordCount
\* for every type, with the value every other type gives for that content.
C21_FieldsByAnalyzeType ==
    Analyzed
        => /\ DOMAIN tret[1] = {"analysisData"}
           /\ DOMAIN tret[1].analysisData = FieldsOf(tcall.input.analyzeType)
           /\ \A type \in AnalyzeTypes :
                 AnalyzeDocumentExecute([content |-> tcall.input.content,
                                         analyzeType |-> type]).analysisData.wordCount
                     = tret[1].analysisData.wordCount

C21_Witness ==
    /\ Analyzed
    /\ tcall.input.analyzeType = "topics_only"
    /\ tcall.input.content = Str_data \o Str_fox
    /\ DOMAIN tret[1].analysisData = {"wordCount", "topics"}
    /\ tret[1].analysisData.wordCount = 4

\* ---------------------------------------------------------------------
\* C22
\* ---------------------------------------------------------------------

\* the matches of one of the four expressions in the content of the call
EntityMatches(kind) == MatchAll(kind, tcall.input.content, 1)

\* C22: the entities analyze_document returns hold no entry twice, and
\* they are, as a set, the first 20 matches of the capitalized-word
\* expression (counted with their repetitions) together with all the
\* matches of the email, phone and URL expressions.
C22_EntitiesUnionCapped ==
    (Analyzed /\ "entities" \in DOMAIN tret[1].analysisData)
        => LET e == tret[1].analysisData.entities
               caps == EntityMatches("caps")
           IN  /\ \A i, j \in DOMAIN e : i # j => e[i] # e[j]
               /\ Range(e) = {caps[i] : i \in {k \in DOMAIN caps : k <= 20}}
                                 \cup Range(EntityMatches("emails"))
                                 \cup Range(EntityMatches("phones"))
                                 \cup Range(EntityMatches("urls"))

\* 21 capitalized words, the first of them twice: 19 entities, and the
\* last word is none of them
C22_Witness ==
    /\ Analyzed
    /\ tcall.input.content = Str_caps_twice
    /\ "entities" \in DOMAIN tret[1].analysisData
    /\ Len(EntityMatches("caps")) = 21
    /\ Len(tret[1].analysisData.entities) = 19
    /\ EntityMatches("caps")[21] \notin Range(tret[1].analysisData.entities)

\* ---------------------------------------------------------------------
\* C23
\* ---------------------------------------------------------------------

\* extract_text_content has returned from a call on a path that ends in .pdf
ExtractedPdf ==
    /\ tcall.tool = "extract_text_content"
    /\ tret # <<>>
    /\ Lowered(ExtName(tcall.input.filePath)) = Chars(".pdf")

\* what reading the file named in the call does
ReadOfCall == ReadFile(cwd, tcall.input.filePath, disk)

PdfPrefix == "PDF parse error: "

\* C23: on a .pdf path, a file that cannot be read is reported with the
\* message of the read error alone, and bytes that cannot be parsed are
\* reported with a message that begins with "PDF parse error: ".
C23_PdfFailureKinds ==
    (ExtractedPdf /\ "error" \in DOMAIN tret[1])
        => IF ReadOfCall.threw
           THEN tret[1].error = <<ReadOfCall.error>>
           ELSE Len(tret[1].error) = 2 /\ tret[1].error[1] = PdfPrefix

\* ---------------------------------------------------------------------
\* detect_document_type (src/utils/agent.ts, 84-117), called on its own
\* ---------------------------------------------------------------------

\* what the operating system keeps of a path besides its content: the time
\* of the last modification, and the size it reports for a directory
Stats == [mtime : Instants, dirSize : {0, 4096}]

\* fs.statSync(p): throws, or the size and the modification time of the
\* file or directory at p; a file of one-byte characters has the size of
\* its text
StatSync(base, p, files, st) ==
    LET target == Resolve(base, p)
        err == IF p = EmptyPath \/ p = BlankPath THEN "ENOENT: no such file or directory"
               ELSE IF target \in DOMAIN files \/ target \in Dirs THEN ""
               ELSE "ENOENT: no such file or directory"
    IN  [threw |-> err # "", error |-> err,
         size |-> IF err # "" THEN 0
                  ELSE IF target \in DOMAIN files THEN Len(files[target])
                  ELSE st.dirSize,
         mtime |-> st.mtime,
         access |-> [op |-> "stat", path |-> target]]

\* TypeMap, were .htm left out of it
TypeMapWithoutHtm(ext) ==
    CASE ext = Chars(".txt") -> <<"txt">>
      [] ext = Chars(".md") -> <<"markdown">>
      [] ext = Chars(".json") -> <<"json">>
      [] ext = Chars(".csv") -> <<"csv">>
      [] ext = Chars(".html") -> <<"html">>
      [] ext = Chars(".pdf") -> <<"pdf">>
      [] OTHER -> <<>>

\* typeMap[ext], lines 96-105: <<>> stands for undefined
TypeMap(ext) ==
    CASE ext = Chars(".txt") -> <<"txt">>
      [] ext = Chars(".md") -> <<"markdown">>
      [] ext = Chars(".json") -> <<"json">>
      [] ext = Chars(".csv") -> <<"csv">>
      [] ext = Chars(".html") -> <<"html">>
      [] ext = Chars(".htm") -> <<"html">>
      [] ext = Chars(".pdf") -> <<"pdf">>
      [] OTHER -> <<>>

\* DetectDocumentTypeExecute, were the path looked up before the protected
\* names are refused
DetectDocumentTypeStatFirst(base, input, files, st) ==
    LET filePath == input.filePath
        stats == StatSync(base, filePath, files, st)
        ext == Lowered(ExtName(filePath))
    IN  IF stats.threw
        THEN [threw |-> FALSE, value |-> [error |-> stats.error, filePath |-> filePath],
              accesses |-> <<stats.access>>]
        ELSE IF filePath = DotGit \/ filePath = NodeModules
        THEN [threw |-> FALSE,
              value |-> [error |-> "Cannot analyze protected path", filePath |-> filePath],
              accesses |-> <<stats.access>>]
        ELSE [threw |-> FALSE,
              value |-> [filePath |-> filePath,
                         type |-> IF TypeMap(ext) = <<>> THEN "unknown" ELSE TypeMap(ext)[1],
                         extension |-> ext, sizeBytes |-> stats.size,
                         lastModified |-> stats.mtime],
              accesses |-> <<stats.access>>]

\* detect_document_type.execute, lines 89-116
DetectDocumentTypeExecute(base, input, files, st) ==
    LET filePath == input.filePath
        stats == StatSync(base, filePath, files, st)
        ext == Lowered(ExtName(filePath))
    IN  IF filePath = DotGit \/ filePath = NodeModules
        THEN [threw |-> FALSE,
              value |-> [error |-> "Cannot analyze protected path", filePath |-> filePath],
              accesses |-> <<>>]
        ELSE IF stats.threw
        THEN [threw |-> FALSE, value |-> [error |-> stats.error, filePath |-> filePath],
              accesses |-> <<stats.access>>]
        ELSE [threw |-> FALSE,
              value |-> [filePath |-> filePath,
                         type |-> IF TypeMap(ext) = <<>> THEN "unknown" ELSE TypeMap(ext)[1],
                         extension |-> ext, sizeBytes |-> stats.size,
                         lastModified |-> stats.mtime],
              accesses |-> <<stats.access>>]

DetectDocumentType(st) ==
    /\ tcall.tool = "detect_document_type"
    /\ tret = <<>>
    /\ \E o \in {DetectDocumentTypeExecute(cwd, tcall.input, disk, st)} :
          /\ tret' = <<o.value>>
          /\ taccess' = o.accesses
    /\ UNCHANGED <<tcall, disk>>
    /\ UNCHANGED httpVars
    /\ UNCHANGED searchVars

\* the names a document may have, and what it may hold
DocumentNames ==
    {"doc.txt", "doc.md", "doc.json", "doc.csv", "doc.html", "doc.htm", "doc.pdf",
     "Doc.PDF", "DOC.HTM", "doc.docx", "doc.tar.gz", "doc.", "README", ".env"}
DocumentTexts == {<<>>, Csv_rows, Json_doc_a, Pdf_bytes}

\* paths that name no document: the protected names, the .git directory by
\* another path, a directory, a file below it, no file, the empty path
FilePaths ==
    OtherPaths \cup {Rel(<<"..", "app", ".git">>), Rel(<<"docs", "report.txt">>)}

FileTools == {"detect_document_type", "extract_text_content"}

\* FileToolsSpec: one call of one of the two tools that take a filePath, in
\* a directory that holds one document
FileToolsInit ==
    /\ HttpIdle
    /\ SearchIdle
    /\ \E name \in DocumentNames, raw \in DocumentTexts :
          /\ disk = [f \in Files \cup {<<"app", name>>} |->
                        IF f = <<"app", name>> THEN raw ELSE Str_old]
          /\ tcall \in [tool : FileTools,
                        input : [filePath : {Rel(<<name>>)} \cup FilePaths]]
    /\ tret = <<>>
    /\ taccess = <<>>

FileToolsNext ==
    \/ \E st \in Stats : DetectDocumentType(st)
    \/ \E pdf \in PdfOutcomes : ExtractTextContent(pdf)

FileToolsSpec == FileToolsInit /\ [][FileToolsNext]_vars

\* ---------------------------------------------------------------------
\* C24
\* ---------------------------------------------------------------------

Detected == tcall.tool = "detect_document_type" /\ tret # <<>>

\* the path of the call names a file or a directory
PathExists ==
    /\ tcall.input.filePath \notin {EmptyPath, BlankPath}
    /\ Resolve(cwd, tcall.input.filePath) \in DOMAIN disk \cup Dirs

\* the last name of the path of the call
NameOfCall ==
    LET parts == tcall.input.filePath.parts IN
    IF parts = <<>> THEN "" ELSE parts[Len(parts)]

\* the type the names of the model are to have
TypeOfName ==
    CASE NameOfCall \in {"doc.txt", "report.txt"} -> "txt"
      [] NameOfCall = "doc.md" -> "markdown"
      [] NameOfCall = "doc.json" -> "json"
      [] NameOfCall = "doc.csv" -> "csv"
      [] NameOfCall \in {"doc.html", "doc.htm", "DOC.HTM"} -> "html"
      [] NameOfCall \in {"doc.pdf", "Doc.PDF"} -> "pdf"
      [] OTHER -> "unknown"

TypeByExtension ==
    IF PathExists
    THEN /\ "error" \notin DOMAIN tret[1]
         /\ tret[1].type = TypeOfName
         /\ tret[1].filePath = tcall.input.filePath
    ELSE /\ "error" \in DOMAIN tret[1]
         /\ tret[1].filePath = tcall.input.filePath

C25_ProtectedPathsRefused ==
    (/\ tcall.tool \in FileTools
     /\ tret # <<>>
     /\ tcall.input.filePath \in {DotGit, NodeModules})
        => /\ "error" \in DOMAIN tret[1]
           /\ tret[1].filePath = tcall.input.filePath
           /\ taccess = <<>>

\* the .git directory is there, and the call does not look at it
C25_Witness ==
    /\ Detected
    /\ tcall.input.filePath = DotGit
    /\ Resolve(cwd, DotGit) \in Dirs
    /\ tret[1] = [error |-> "Cannot analyze protected path", filePath |-> DotGit]
    /\ taccess = <<>>

\* ---------------------------------------------------------------------
\* C26
\* ---------------------------------------------------------------------

\* the tokens of a text: the places where a character that is no
\* whitespace stands first or behind whitespace
TokensOf(text) ==
    Cardinality({i \in DOMAIN text :
                    /\ text[i] \notin Whitespace
                    /\ (i = 1 \/ text[i - 1] \in Whitespace)})

Str_csv_extracted ==
    <<"C", "S", "V", " ", "r", "o", "w", "s", ":", " ", "3", "\n", "\n",
      "a", ",", "b", "\n", "1", ",", "2", "\r", "\n">>

\* C26: from a .csv file the tool returns "CSV rows: N", an empty line and
\* the content of the file as it is, N being one more than the number of
\* line feeds in it (a carriage return before a line feed belongs to the
\* same line break); wordCount counts the tokens of the returned text,
\* three more than the file has.
C26_CsvHeaderAndCount ==
    ExtractedFrom({"doc.csv"})
        => /\ "extractedText" \in DOMAIN tret[1]
           /\ LET raw == RawOfCall
                  text == tret[1].extractedText
                  n == 1 + Cardinality({i \in DOMAIN raw : raw[i] = "\n"})
              IN  /\ text = <<"C", "S", "V", " ", "r", "o", "w", "s", ":", " ">>
                               \o DigitsOf(n) \o <<"\n", "\n">> \o raw
                  /\ raw = Csv_rows => text = Str_csv_extracted
                  /\ tret[1].wordCount = TokensOf(text)
                  /\ tret[1].wordCount = 3 + TokensOf(raw)

\* three pieces, two tokens in the file, five in the text returned
C26_Witness ==
    /\ ExtractedFrom({"doc.csv"})
    /\ RawOfCall = Csv_rows
    /\ tret[1].extractedText = Str_csv_extracted
    /\ tret[1].wordCount = 5

\* ---------------------------------------------------------------------
\* C27
\* ---------------------------------------------------------------------

\* an optional string of the body is given and not empty
NotEmpty(opt) == opt # <<>> /\ opt # <<"">>

\* C27: the prompt documentAgent is called with is the prompt of the
\* request followed by " (Document: <filePath>)" when the filePath is not
\* empty, whatever the content; else the prompt, an empty line, "Document
\* content:" and the content when the content is not empty; else the
\* prompt as it is.
C27_FullPrompt ==
    \A r \in Requests :
        invoked[r] # <<>> =>
            LET body == request[r][1]
                fullPrompt == invoked[r][1]
            IN  /\ body.kind = "object"
                /\ NotEmpty(body.filePath)
                      => fullPrompt = body.prompt[1] \o " (Document: " \o body.filePath[1] \o ")"
                /\ (~NotEmpty(body.filePath) /\ NotEmpty(body.content))
                      => fullPrompt = body.prompt[1] \o "\n\nDocument content:\n"
                                          \o body.content[1]
                /\ (~NotEmpty(body.filePath) /\ ~NotEmpty(body.content))
                      => fullPrompt = body.prompt[1]
                /\ (body.prompt = <<"Summarize">> /\ body.filePath = <<"a.txt">>)
                      => fullPrompt = "Summarize (Document: a.txt)"
                /\ (body.prompt = <<"Summarize">> /\ body.filePath \in {<<>>, <<"">>}
                        /\ body.content = <<"Hello">>)
                      => fullPrompt = "Summarize\n\nDocument content:\nHello"

\* filePath and content both given: the content is left out
C27_Witness ==
    /\ request["r1"] # <<>>
    /\ request["r1"][1].kind = "object"
    /\ request["r1"][1].filePath = <<"a.txt">>
    /\ request["r1"][1].content = <<"Hello">>
    /\ invoked["r1"] = <<"Summarize (Document: a.txt)">>

\* ---------------------------------------------------------------------
\* testDocumentAgent (src/utils/test-document.ts, 6-43): three sessions of
\* documentAgent, one after the other in one process, each a sequence of
\* tool calls of the model on the files and the working directory of the
\* process.  A session may end after any step; the cap of 15 steps only
\* ends it earlier.
\* ---------------------------------------------------------------------

\* fs.readdirSync(p) on the files of the process
ReaddirOnDisk(base, p, files) ==
    LET target == Resolve(base, p)
        err == IF p = EmptyPath \/ p = BlankPath THEN "ENOENT: no such file or directory"
               ELSE IF target \in Dirs THEN ""
               ELSE IF target \in DOMAIN files THEN "ENOTDIR: not a directory"
               ELSE "ENOENT: no such file or directory"
    IN  [threw |-> err # "", error |-> err,
         output |-> IF err # "" THEN {}
                    ELSE {f[Len(f)] : f \in {g \in Dirs \cup DOMAIN files :
                              Len(g) = Len(target) + 1 /\ SubSeq(g, 1, Len(target)) = target}},
         access |-> [op |-> "readdir", path |-> target]]

\* list_files.execute, lines 52-64, on the files of the process
ListFilesOnDisk(base, input, files) ==
    LET generatedPath == input.path
    IN IF generatedPath = <<DotGit>> \/ generatedPath = <<NodeModules>>
       THEN [value |-> [error |-> "Cannot list protected path",
                        generatedPath |-> generatedPath],
             accesses |-> <<>>]
       ELSE LET targetPath == IF TrimIsEmpty(generatedPath) THEN Dot
                              ELSE generatedPath[1]
                o == ReaddirOnDisk(base, targetPath, files)
            IN IF o.threw
               THEN [value |-> [error |-> o.error], accesses |-> <<o.access>>]
               ELSE [value |-> [path |-> targetPath, output |-> o.output],
                     accesses |-> <<o.access>>]

\* read_file.execute, lines 74-82, on the files of the process
ReadFileOnDisk(base, input, files) ==
    LET o == ReadFile(base, input.path[1], files)
    IN IF o.threw
       THEN [value |-> [path |-> input.path[1], error |-> o.error],
             accesses |-> <<o.access>>]
       ELSE [value |-> [path |-> input.path[1], output |-> o.output],
             accesses |-> <<o.access>>]

\* the prompts of lines 19, 26 and 33
TestPrompts ==
    <<"change directory to /home/blackie/Documents/ and list the files in that directory",
      "Analyze the AIGovernance.pdf file and provide a comprehensive summary",
      "Analyze all the files in this directory /home/blackie/Documents/ and provide a comprehensive summary">>

TestNames == <<"test1", "test2", "test3">>

\* the session that is under way, or was last
TestNumber == Len(invoked["r1"])

\* no tool is running: none was called yet, or the one called has returned
ToolIdle ==
    \/ tcall.tool = "none"
    \/ tcall.tool = "search_document" /\ sd = "returned"
    \/ tcall.tool # "search_document" /\ tret # <<>>

TestAnalysis ==
    [filename |-> Str_a_txt, summary |-> Str_Hi, wordCount |-> Normal(FALSE, 42, 0),
     sourceFile |-> Str_docs_a]

Str_a_a == <<"a", " ", "a">>

\* what the model may call in a session
TestToolCalls ==
    {[tool |-> "change_directory", input |-> [path |-> <<p>>]] :
        p \in {Rel(<<"docs">>), Abs(<<"app">>), Rel(<<"missing">>)}}
    \cup {[tool |-> "list_files", input |-> [path |-> p]] : p \in {<<Dot>>, <<DotGit>>}}
    \cup {[tool |-> "read_file", input |-> [path |-> <<p>>]] :
            p \in {Rel(<<"notes.txt">>), Rel(<<"out.json">>)}}
    \cup {[tool |-> "detect_document_type", input |-> [filePath |-> p]] :
            p \in {Rel(<<"out.json">>), DotGit}}
    \cup {[tool |-> "extract_text_content", input |-> [filePath |-> p]] :
            p \in {Rel(<<"notes.txt">>), Rel(<<"out.json">>)}}
    \cup {[tool |-> "analyze_document",
           input |-> [content |-> Str_fox, analyzeType |-> "full"]]}
    \cup {[tool |-> "search_document",
           input |-> [content |-> Str_a_a, query |-> q, contextLength |-> MinContextLength]] :
            q \in {<<"a">>, <<>>}}
    \cup {[tool |-> "save_analysis", input |-> [analysisData |-> TestAnalysis, outputPath |-> p]] :
            p \in {Rel(<<"out.json">>), Rel(<<"docs", "report.txt">>), Abs(<<"app", "docs">>)}}

TestInit ==
    /\ HttpIdle
    /\ SearchIdle
    /\ tcall = [tool |-> "none"]
    /\ tret = <<>>
    /\ disk = InitialDisk
    /\ taccess = <<>>

\* AgentCalled, were every session started in the directory the process started in
AgentCalledInStartDirectory ==
    /\ pc["r1"] = "idle"
    /\ TestNumber < Len(TestPrompts)
    /\ invoked' = [invoked EXCEPT !["r1"] = Append(@, TestPrompts[TestNumber + 1])]
    /\ pc' = [pc EXCEPT !["r1"] = "session"]
    /\ cwd' = InitCwd
    /\ UNCHANGED <<request, steps, toolFailed, result, logged, response, escaped,
                   lastExec, lastChdir>>
    /\ UNCHANGED searchVars
    /\ UNCHANGED benchVars

\* await documentAgent(prompt), lines 18, 25 and 32: the next session starts
AgentCalled ==
    /\ pc["r1"] = "idle"
    /\ TestNumber < Len(TestPrompts)
    /\ invoked' = [invoked EXCEPT !["r1"] = Append(@, TestPrompts[TestNumber + 1])]
    /\ pc' = [pc EXCEPT !["r1"] = "session"]
    /\ UNCHANGED <<request, steps, toolFailed, result, logged, response, escaped,
                   cwd, lastExec, lastChdir>>
    /\ UNCHANGED searchVars
    /\ UNCHANGED benchVars

\* a step in which the model calls a tool: its execute is entered
ModelCallsTool(call) ==
    /\ pc["r1"] = "session"
    /\ ToolIdle
    /\ tcall' = call
    /\ tret' = <<>>
    /\ taccess' = <<>>
    /\ IF call.tool = "search_document"
       THEN /\ content' = call.input.content
            /\ query' = call.input.query
            /\ contextLength' = call.input.contextLength
            /\ re' = [source |-> <<>>, lastIndex |-> 0]
            /\ matches' = <<>>
            /\ sd' = "called"
            /\ sdResult' = <<>>
       ELSE UNCHANGED searchVars
    /\ UNCHANGED disk
    /\ UNCHANGED httpVars

\* change_directory runs
ChangeDirectory ==
    /\ tcall.tool = "change_directory"
    /\ tret = <<>>
    /\ \E o \in {ChangeDirectoryExecute(cwd, tcall.input)} :
          /\ tret' = <<o.value>>
          /\ taccess' = o.accesses
          /\ cwd' = o.cwd
          /\ lastChdir' = IF o.value.success
                          THEN [by |-> TestNames[TestNumber], dir |-> o.cwd]
                          ELSE lastChdir
    /\ UNCHANGED <<tcall, disk>>
    /\ UNCHANGED <<pc, request, invoked, steps, toolFailed, result, logged, response,
                   escaped, lastExec>>
    /\ UNCHANGED searchVars

\* list_files runs
ListFiles ==
    /\ tcall.tool = "list_files"
    /\ tret = <<>>
    /\ \E o \in {ListFilesOnDisk(cwd, tcall.input, disk)} :
          /\ tret' = <<o.value>>
          /\ taccess' = o.accesses
    /\ UNCHANGED <<tcall, disk>>
    /\ UNCHANGED httpVars
    /\ UNCHANGED searchVars

\* read_file runs
ReadFileTool ==
    /\ tcall.tool = "read_file"
    /\ tret = <<>>
    /\ \E o \in {ReadFileOnDisk(cwd, tcall.input, disk)} :
          /\ tret' = <<o.value>>
          /\ taccess' = o.accesses
    /\ UNCHANGED <<tcall, disk>>
    /\ UNCHANGED httpVars
    /\ UNCHANGED searchVars

\* the model answers with a text: documentAgent returns, line 18, 25 or 32
AgentReturns ==
    /\ pc["r1"] = "session"
    /\ ToolIdle
    /\ pc' = [pc EXCEPT !["r1"] = "idle"]
    /\ UNCHANGED <<request, invoked, steps, toolFailed, result, logged, response,
                   escaped, cwd, lastExec, lastChdir>>
    /\ UNCHANGED searchVars
    /\ UNCHANGED benchVars

\* the call to the model provider fails: documentAgent rejects and the
\* catch of line 40 ends the test
AgentRejects(e) ==
    /\ pc["r1"] = "session"
    /\ ToolIdle
    /\ pc' = [pc EXCEPT !["r1"] = "done"]
    /\ logged' = [logged EXCEPT !["r1"] = <<e>>]
    /\ UNCHANGED <<request, invoked, steps, toolFailed, result, response, escaped,
                   cwd, lastExec, lastChdir>>
    /\ UNCHANGED searchVars
    /\ UNCHANGED benchVars

TestNext ==
    \/ AgentCalled
    \/ \E call \in TestToolCalls : ModelCallsTool(call)
    \/ ChangeDirectory
    \/ ListFiles
    \/ ReadFileTool
    \/ \E st \in Stats : DetectDocumentType(st)
    \/ \E pdf \in PdfOutcomes : ExtractTextContent(pdf)
    \/ AnalyzeDocument
    \/ SearchStart
    \/ SearchMatch
    \/ SearchReturn
    \/ SearchExhaust
    \/ \E now \in Instants : SaveAnalysis(now)
    \/ AgentReturns
    \/ \E e \in ProviderErrors : AgentRejects(e)

TestSpec == TestInit /\ [][TestNext]_vars

\* the step is a run of change_directory that returned success
ChdirSucceeds ==
    /\ tcall.tool = "change_directory"
    /\ tret = <<>>
    /\ tret' # <<>>
    /\ tret'[1].success

\* C28: across the sessions of one process the working directory changes
\* only in a step in which change_directory returns success, and then to
\* the directory that result names; every other step (another tool, a
\* failed change_directory, the start or the end of a session) leaves it
\* as it was, so the value outlives the session that set it.
C28_CwdOutlivesSession ==
    [][/\ cwd' # cwd => (ChdirSucceeds /\ cwd' = tret'[1].currentDirectory)
       /\ ChdirSucceeds => (cwd' = tret'[1].currentDirectory /\ pc' = pc)]_vars

\* the third session lists "." in the directory the first session changed to
C28_Witness ==
    /\ TestNumber = 3
    /\ pc["r1"] = "session"
    /\ lastChdir = [by |-> "test1", dir |-> <<"app", "docs">>]
    /\ cwd = <<"app", "docs">>
    /\ cwd # InitCwd
    /\ tcall = [tool |-> "list_files", input |-> [path |-> <<Dot>>]]
    /\ tret # <<>>
    /\ tret[1] = [path |-> Dot, output |-> {"report.txt"}]

\* the files whose content differs, or that exist on one side only
ChangedFiles(before, after) ==
    {f \in DOMAIN before \cup DOMAIN after :
        \/ f \notin DOMAIN before
        \/ f \notin DOMAIN after
        \/ before[f] # after[f]}

\* the step is a run of save_analysis that returns
SaveReturns ==
    /\ tcall.tool = "save_analysis"
    /\ tret = <<>>
    /\ tret' # <<>>

\* C29: a step changes the content of a file only if it is a run of
\* save_analysis that returns success, and then only the file its
\* outputPath names; the seven other tools leave every file as it was, and
\* a run of save_analysis whose write fails returns an error and leaves
\* every file as it was.
C29_OnlySaveWrites ==
    [][/\ disk' # disk =>
            /\ SaveReturns
            /\ "success" \in DOMAIN tret'[1]
            /\ tret'[1].success
            /\ ChangedFiles(disk, disk') = {Resolve(cwd, tcall.input.outputPath)}
       /\ SaveReturns =>
            IF WriteFileSync(cwd, tcall.input.outputPath, <<>>, disk).threw
            THEN DOMAIN tret'[1] = {"error"} /\ disk' = disk
            ELSE "success" \in DOMAIN tret'[1]]_vars

\* out.json was saved in docs; later, back in the start directory,
\* extract_text_content read notes.txt, which is as it was at the start
C29_Witness ==
    /\ ChangedFiles(InitialDisk, disk) = {<<"app", "docs", "out.json">>}
    /\ cwd = <<"app">>
    /\ lastChdir.dir = <<"app">>
    /\ tcall.tool = "extract_text_content"
    /\ tret # <<>>
    /\ "extractedText" \in DOMAIN tret[1]
    /\ tret[1].extractedText = Str_old

\* ---------------------------------------------------------------------
\* C30
\* ---------------------------------------------------------------------

\* the letters of the texts: those of \w and the one that \w does not match
TextLetters == UpperChars \cup LowerChars \cup {A_grave}

\* a token of the text has no letter, digit or underscore in it
HasTokenWithoutLetters(text) ==
    \E i \in DOMAIN text :
        /\ text[i] \notin Whitespace
        /\ (i = 1 \/ text[i - 1] \in Whitespace)
        /\ \A j \in i..Len(text) :
              (\A k \in i..j : text[k] \notin Whitespace)
                  => text[j] \notin TextLetters \cup DigitChars \cup {"_"}

\* C30: the wordCount analyze_document returns for a text is never greater
\* than the wordCount extract_text_content returns for the same text, and
\* the two are equal when no token of the text is without a letter, a
\* digit or an underscore.
C30_WordCountsAgree ==
    Analyzed
        => /\ tret[1].analysisData.wordCount <= WordCount(tcall.input.content)
           /\ ~HasTokenWithoutLetters(tcall.input.content)
                 => tret[1].analysisData.wordCount = WordCount(tcall.input.content)

====
